---- MODULE Spec2Model ----
(***************************************************************************)
(* Carbon Ledger MRV: the calculation core.                                *)
(*                                                                         *)
(*   formulaEvaluator.js  tokenize / Parser / evaluate                     *)
(*   emissionEngine.js    calcCombustionEmissions .. calculateTotalEmissions*)
(*                        and calculatePCF                                 *)
(*                                                                         *)
(* JavaScript numbers are modelled as exact rationals extended with        *)
(* Infinity, -Infinity and NaN: the pair <<n, d>> is n/d in lowest terms   *)
(* with d > 0, <<1, 0>> is Infinity, <<-1, 0>> is -Infinity and <<0, 0>>   *)
(* is NaN.  Rounding of binary floating point and the sign of zero are not *)
(* modelled.  The JavaScript null is the empty tuple.                      *)
(***************************************************************************)
EXTENDS Integers, Sequences, FiniteSets, TLC

VARIABLES
    pc,                 \* "ready" before the call under study, "done" after
    formula,            \* evaluate: the formula, a sequence of characters
    variables,          \* evaluate: the variable map, identifier -> value
    result,             \* evaluate: the returned {value, error}
    activity,           \* calculateTotalEmissions: its argument
    emissions,          \* calculateTotalEmissions: its result
    products,           \* calculatePCF: the product list
    allocationSettings, \* calculatePCF: {treatResidueAsWaste}
    pcf,                \* calculatePCF: the returned rows
    cbamConfig,         \* calculateCBAMProjection: its argument config
    projection,         \* calculateCBAMProjection: its result
    baseConfig,         \* compareScenarios: the base configuration
    scenarios,          \* compareScenarios: the scenarios
    scenarioResults,    \* compareScenarios: the results mapped so far
    referenceData,      \* cbamReferenceData: the exported tables
    validation,         \* validateFormula: the returned {valid, error, unknownVars}
    extracted,          \* extractVariables: the returned list
    db,                 \* database.js: the tables of the SQLite database
    fetched,            \* dal.js: the rows the last read returned
    appState            \* AppContext: the state of the reducer

vars == <<pc, formula, variables, result, activity, emissions,
          products, allocationSettings, pcf,
          cbamConfig, projection, baseConfig, scenarios, scenarioResults,
          referenceData, validation, extracted, db, fetched, appState>>

Null == <<>>

(***************************************************************************)
(* Numbers                                                                 *)
(***************************************************************************)
NaN == <<0, 0>>
Infinity == <<1, 0>>
NegInfinity == <<-1, 0>>
Zero == <<0, 1>>
One == <<1, 1>>

Abs(n) == IF n < 0 THEN -n ELSE n
Sgn(n) == IF n < 0 THEN -1 ELSE IF n > 0 THEN 1 ELSE 0

RECURSIVE GCD(_, _)
GCD(a, b) == IF b = 0 THEN a ELSE GCD(b, a % b)

\* n/d brought to the canonical representation
Norm(n, d) ==
    IF d = 0 THEN <<Sgn(n), 0>>
    ELSE LET g == GCD(Abs(n), Abs(d))
             s == IF d < 0 THEN -1 ELSE 1
         IN <<(s * n) \div g, (s * d) \div g>>

Num(n) == <<n, 1>>
Rat(n, d) == Norm(n, d)

\* a function or an object: truthy, and NaN wherever a number is wanted
ObjectValue == <<0, 0, 1>>

\* a string that is not a numeric literal: truthy, and NaN as a number
TextValue == <<0, 0, 2>>

\* Number(x) for a number, an object or a string
ToNumber(x) == IF x \in {ObjectValue, TextValue} THEN NaN ELSE x

IsNaN(x) == x = NaN
IsFinite(x) == x[2] # 0
IsInteger(x) == x[2] = 1

NNeg(x) == <<-x[1], x[2]>>

\* the product of two fractions in lowest terms, each numerator already
\* reduced against the other's denominator
ReducedProduct(a, b) == Norm(a[1] * b[1], a[2] * b[2])

NMul(x, y) == ReducedProduct(Norm(x[1], y[2]), Norm(y[1], x[2]))

NDiv(x, y) == ReducedProduct(Norm(x[1], y[1]), Norm(y[2], x[2]))

NAdd(x, y) ==
    IF IsNaN(x) \/ IsNaN(y) THEN NaN
    ELSE IF ~IsFinite(x) /\ ~IsFinite(y) THEN (IF x = y THEN x ELSE NaN)
    ELSE IF ~IsFinite(x) THEN x
    ELSE IF ~IsFinite(y) THEN y
    ELSE LET l == (x[2] \div GCD(x[2], y[2])) * y[2]
         IN Norm(x[1] * (l \div x[2]) + y[1] * (l \div y[2]), l)

NSub(x, y) == NAdd(x, NNeg(y))

NLess(x, y) ==
    /\ ~IsNaN(x) /\ ~IsNaN(y)
    /\ IF IsFinite(x) /\ IsFinite(y) THEN x[1] * y[2] < y[1] * x[2]
       ELSE IF ~IsFinite(x) /\ ~IsFinite(y) THEN x[1] < y[1]
       ELSE IF ~IsFinite(x) THEN x[1] < 0
       ELSE y[1] > 0

\* x > 0 as JavaScript evaluates it (false for NaN)
IsPositive(x) == NLess(Zero, x)

RECURSIVE IntPow(_, _)
IntPow(b, k) == IF k = 0 THEN 1 ELSE b * IntPow(b, k - 1)

\* a positive finite result whose value is irrational is outside the number
\* model; no input of the model reaches it (see NoIrrational)
Irrational == <<1, -1>>

\* Math.pow(base, exp)
MathPow(base, exp) ==
    IF IsNaN(exp) THEN NaN
    ELSE IF exp = Zero THEN One
    ELSE IF IsNaN(base) THEN NaN
    ELSE IF IsFinite(exp) /\ IsInteger(exp) THEN
        LET k == Abs(exp[1])
            p == IF IsFinite(base)
                 THEN <<IntPow(base[1], k), IntPow(base[2], k)>>
                 ELSE <<IF k % 2 = 0 THEN 1 ELSE base[1], 0>>
        IN IF exp[1] > 0 THEN p ELSE NDiv(One, p)
    ELSE IF ~IsFinite(exp) THEN
        \* exp is +-Infinity
        IF Abs(base[1]) = Abs(base[2]) THEN NaN            \* |base| = 1
        ELSE IF (Abs(base[1]) > Abs(base[2]) \/ ~IsFinite(base)) = (exp[1] > 0)
             THEN Infinity ELSE Zero
    ELSE
        \* exp is finite and not an integer
        IF base = Zero THEN (IF exp[1] > 0 THEN Zero ELSE Infinity)
        ELSE IF base = Infinity THEN (IF exp[1] > 0 THEN Infinity ELSE Zero)
        ELSE IF base = NegInfinity THEN (IF exp[1] > 0 THEN Infinity ELSE Zero)
        ELSE IF base[1] < 0 THEN NaN
        ELSE IF base = One THEN One
        ELSE Irrational

\* Number(v) || 0 for a value v that is not undefined
OrZero(x) == IF IsNaN(ToNumber(x)) THEN Zero ELSE x

(***************************************************************************)
(* formulaEvaluator.js: tokenize                                           *)
(***************************************************************************)
Digits == {"0", "1", "2", "3", "4", "5", "6", "7", "8", "9"}
Letters == {"a", "b", "c", "d", "e", "f", "g", "h", "i", "j", "k", "l", "m",
            "n", "o", "p", "q", "r", "s", "t", "u", "v", "w", "x", "y", "z",
            "A", "B", "C", "D", "E", "F", "G", "H", "I", "J", "K", "L", "M",
            "N", "O", "P", "Q", "R", "S", "T", "U", "V", "W", "X", "Y", "Z"}
\* /\s/
IsSpace(ch) == ch \in {" ", "\t", "\n"}
\* /[0-9.]/
IsNumberStart(ch) == ch \in Digits \cup {"."}
\* /[0-9.eE]/
IsNumberChar(ch) == ch \in Digits \cup {".", "e", "E"}
\* /[a-zA-Z_]/
IsIdentStart(ch) == ch \in Letters \cup {"_"}
\* /[a-zA-Z0-9_]/
IsIdentChar(ch) == ch \in Letters \cup Digits \cup {"_"}
\* '+-*/^()'.includes(ch)
IsOperator(ch) == ch \in {"+", "-", "*", "/", "^", "(", ")"}

DigitValue(ch) ==
    CASE ch = "0" -> 0 [] ch = "1" -> 1 [] ch = "2" -> 2 [] ch = "3" -> 3
      [] ch = "4" -> 4 [] ch = "5" -> 5 [] ch = "6" -> 6 [] ch = "7" -> 7
      [] ch = "8" -> 8 [] ch = "9" -> 9

\* the first index >= i of s whose character is not a digit (Len(s)+1 if none)
RECURSIVE SkipDigits(_, _)
SkipDigits(s, i) ==
    IF i <= Len(s) /\ s[i] \in Digits THEN SkipDigits(s, i + 1) ELSE i

\* the value of the decimal digits s[i..j-1], 0 for no digit
RECURSIVE DigitsValue(_, _, _)
DigitsValue(s, i, j) ==
    IF i >= j THEN 0 ELSE DigitsValue(s, i, j - 1) * 10 + DigitValue(s[j - 1])

\* parseFloat(num) for a string of the characters 0-9 . e E: the value of the
\* longest prefix that is a decimal literal, NaN when no prefix is one.  A
\* sign cannot follow the exponent letter, the tokenizer never puts one in num.
parseFloat(num) ==
    LET intEnd == SkipDigits(num, 1)
        hasDot == intEnd <= Len(num) /\ num[intEnd] = "."
        fracEnd == IF hasDot THEN SkipDigits(num, intEnd + 1) ELSE intEnd
        fracLen == IF hasDot THEN fracEnd - (intEnd + 1) ELSE 0
        mantissa ==
            NAdd(Num(DigitsValue(num, 1, intEnd)),
                 IF fracLen = 0 THEN Zero
                 ELSE Rat(DigitsValue(num, intEnd + 1, fracEnd), IntPow(10, fracLen)))
        hasE == fracEnd <= Len(num) /\ num[fracEnd] \in {"e", "E"}
        expEnd == IF hasE THEN SkipDigits(num, fracEnd + 1) ELSE fracEnd
        hasExp == hasE /\ expEnd > fracEnd + 1
        exponent == IF hasExp THEN DigitsValue(num, fracEnd + 1, expEnd) ELSE 0
    IN IF intEnd = 1 /\ fracLen = 0 THEN NaN
       ELSE NMul(mantissa, Num(IntPow(10, exponent)))

\* the first index >= i of expr whose character is outside the class
RECURSIVE ScanNumber(_, _)
ScanNumber(expr, i) ==
    IF i <= Len(expr) /\ IsNumberChar(expr[i]) THEN ScanNumber(expr, i + 1) ELSE i

RECURSIVE ScanIdent(_, _)
ScanIdent(expr, i) ==
    IF i <= Len(expr) /\ IsIdentChar(expr[i]) THEN ScanIdent(expr, i + 1) ELSE i

Token(type, value) == [type |-> type, value |-> value]
EOF == Token("EOF", Null)

\* the while loop of tokenize, from position i with the tokens read so far
RECURSIVE tokenizeFrom(_, _, _)
tokenizeFrom(expr, i, tokens) ==
    IF i > Len(expr) THEN [tokens |-> Append(tokens, EOF), error |-> Null]
    ELSE LET ch == expr[i] IN
        IF IsSpace(ch) THEN tokenizeFrom(expr, i + 1, tokens)
        ELSE IF IsNumberStart(ch) THEN
            LET j == ScanNumber(expr, i)
                num == SubSeq(expr, i, j - 1)
                parsed == parseFloat(num)
            IN IF IsNaN(parsed)
               THEN [tokens |-> Null, error |-> <<"Invalid number", num>>]
               ELSE tokenizeFrom(expr, j, Append(tokens, Token("NUMBER", parsed)))
        ELSE IF IsIdentStart(ch) THEN
            LET j == ScanIdent(expr, i)
            IN tokenizeFrom(expr, j, Append(tokens, Token("IDENT", SubSeq(expr, i, j - 1))))
        ELSE IF IsOperator(ch) THEN
            tokenizeFrom(expr, i + 1, Append(tokens, Token(ch, <<ch>>)))
        ELSE [tokens |-> Null, error |-> <<"Unexpected character", <<ch>>>>]

tokenize(expr) == tokenizeFrom(expr, 1, <<>>)

(***************************************************************************)
(* formulaEvaluator.js: class Parser.  A parsing method returns            *)
(* [value, pos, error]: the value computed, this.pos afterwards, and the   *)
(* message of the Error it threw (Null when it returned normally).         *)
(***************************************************************************)
Return(value, pos) == [value |-> value, pos |-> pos, error |-> Null]
Throw(kind, detail, pos) == [value |-> Null, pos |-> pos, error |-> <<kind, detail>>]

\* Names every plain object answers to through Object.prototype: the `in`
\* operator of Parser.primary finds them in any variable map.
ObjectPrototypeKeys ==
    { <<"c","o","n","s","t","r","u","c","t","o","r">>,
      <<"t","o","S","t","r","i","n","g">>,
      <<"v","a","l","u","e","O","f">>,
      <<"h","a","s","O","w","n","P","r","o","p","e","r","t","y">>,
      <<"i","s","P","r","o","t","o","t","y","p","e","O","f">>,
      <<"p","r","o","p","e","r","t","y","I","s","E","n","u","m","e","r","a","b","l","e">>,
      <<"t","o","L","o","c","a","l","e","S","t","r","i","n","g">>,
      <<"_","_","p","r","o","t","o","_","_">> }

\* name in this.variables
HasVariable(vs, name) == name \in DOMAIN vs \/ name \in ObjectPrototypeKeys

\* Number(this.variables[name]) || 0; an inherited property is a function or
\* an object, whose Number() is NaN
VariableValue(vs, name) ==
    IF name \in DOMAIN vs THEN OrZero(vs[name]) ELSE OrZero(NaN)

\* the method unary calls for the operand of a minus: -this.primary()
unaryOperandPower == "power"
unaryOperand == "primary"

\* the method power calls for what follows a caret: this.power()
powerExponentUnary == "unary"
powerExponent == "power"

\* The methods of the class, one case per method; "termLoop" and
\* "expressionLoop" are the while loops of term and expression, entered with
\* the value of left so far.
RECURSIVE Parser(_, _, _, _, _)
Parser(method, tokens, vs, pos, left) ==
    LET tok == tokens[pos] IN
    CASE method = "primary" ->
        IF tok.type = "NUMBER" THEN Return(tok.value, pos + 1)
        ELSE IF tok.type = "IDENT" THEN
            IF ~HasVariable(vs, tok.value)
            THEN Throw("Unknown variable", tok.value, pos + 1)
            ELSE Return(VariableValue(vs, tok.value), pos + 1)
        ELSE IF tok.type = "(" THEN
            LET val == Parser("expression", tokens, vs, pos + 1, Null) IN
            IF val.error # Null THEN val
            ELSE IF tokens[val.pos].type # ")"
                 THEN Throw("Expected ) but got", tokens[val.pos].value, val.pos)
                 ELSE Return(val.value, val.pos + 1)
        ELSE Throw("Unexpected token", tok.value, pos)
    [] method = "unary" ->
        IF tok.type = "-" THEN
            LET p == Parser(unaryOperand, tokens, vs, pos + 1, Null) IN
            IF p.error # Null THEN p ELSE Return(NNeg(p.value), p.pos)
        ELSE Parser("primary", tokens, vs, pos, Null)
    [] method = "power" ->
        LET base == Parser("unary", tokens, vs, pos, Null) IN
        IF base.error # Null THEN base
        ELSE IF tokens[base.pos].type = "^" THEN
            LET exp == Parser(powerExponent, tokens, vs, base.pos + 1, Null) IN
            IF exp.error # Null THEN exp
            ELSE Return(MathPow(base.value, exp.value), exp.pos)
        ELSE base
    [] method = "termLoop" ->
        IF tok.type \in {"*", "/"} THEN
            LET right == Parser("power", tokens, vs, pos + 1, Null) IN
            IF right.error # Null THEN right
            ELSE Parser("termLoop", tokens, vs, right.pos,
                        IF tok.type = "*" THEN NMul(left, right.value)
                                          ELSE NDiv(left, right.value))
        ELSE Return(left, pos)
    [] method = "term" ->
        LET first == Parser("power", tokens, vs, pos, Null) IN
        IF first.error # Null THEN first
        ELSE Parser("termLoop", tokens, vs, first.pos, first.value)
    [] method = "expressionLoop" ->
        IF tok.type \in {"+", "-"} THEN
            LET right == Parser("term", tokens, vs, pos + 1, Null) IN
            IF right.error # Null THEN right
            ELSE Parser("expressionLoop", tokens, vs, right.pos,
                        IF tok.type = "+" THEN NAdd(left, right.value)
                                          ELSE NSub(left, right.value))
        ELSE Return(left, pos)
    [] method = "expression" ->
        LET first == Parser("term", tokens, vs, pos, Null) IN
        IF first.error # Null THEN first
        ELSE Parser("expressionLoop", tokens, vs, first.pos, first.value)

expression(tokens, vs, pos) == Parser("expression", tokens, vs, pos, Null)

\* the end of Parser.parse after result = this.expression()
expectEOF(tokens, r) ==
    IF r.error # Null THEN r
    ELSE IF tokens[r.pos].type # "EOF"
         THEN Throw("Unexpected token", tokens[r.pos].value, r.pos)
         ELSE r

\* Parser.parse
parse(tokens, vs) == expectEOF(tokens, expression(tokens, vs, 1))

(***************************************************************************)
(* formulaEvaluator.js: evaluate                                           *)
(***************************************************************************)
\* !formula || !formula.trim()
IsBlank(f) == \A i \in 1..Len(f) : IsSpace(f[i])

NotFinite == <<"Result is not a finite number (division by zero?)", <<>>>>

\* the end of the try block, r being what parser.parse() returned or threw
finiteValue(r) ==
    IF r.error # Null THEN [value |-> Null, error |-> r.error]
    ELSE IF ~IsFinite(r.value) THEN [value |-> Null, error |-> NotFinite]
    ELSE [value |-> r.value, error |-> Null]

\* the try block, t being what tokenize(formula) returned or threw
evaluateTokens(t, vs) ==
    IF t.error # Null THEN [value |-> Null, error |-> t.error]
    ELSE finiteValue(parse(t.tokens, vs))

evaluate(f, vs) ==
    IF IsBlank(f) THEN [value |-> Zero, error |-> Null]
    ELSE evaluateTokens(tokenize(f), vs)

(***************************************************************************)
(* Inputs of evaluate                                                      *)
(***************************************************************************)
MaxLen == 3

\* every string over the alphabet of at most MaxLen characters
Alphabet == {"0", "1", "2", "a", "+", "-", "*", "/", "^", "(", ")", " ", "$"}
ShortFormulas == UNION {[1..n -> Alphabet] : n \in 0..MaxLen}

A == <<"a">>
B == <<"b">>
C == <<"c">>

\* formulas of the documentation and of the templates' shapes
GivenFormulas ==
    { <<"2","+","3","*","4">>,              \* 2+3*4
      <<"2","*","3","+","4">>,              \* 2*3+4
      <<"(","2","+","3",")","*","4">>,      \* (2+3)*4
      <<"8","-","3","-","2">>,              \* 8-3-2
      <<"8","/","4","/","2">>,              \* 8/4/2
      <<"2","^","3","^","2">>,              \* 2^3^2
      <<"2","*","3","^","2">>,              \* 2*3^2
      <<"-","2","^","2">>,                  \* -2^2
      <<"a","^","b">>,                      \* a^b
      <<"a","+","b","*","c">>,              \* a+b*c
      <<"a","-","b","-","c">>,              \* a-b-c
      <<"a","-","b","+","c">>,              \* a-b+c
      <<"a","*","b","^","c">>,              \* a*b^c
      <<"a","^","b","^","c">>,              \* a^b^c
      <<"(","a","+","b",")","*","c">>,      \* (a+b)*c
      <<"a","/","(","b","+","1",")","/","(","c","+","1",")">>, \* a/(b+1)/(c+1)
      <<"-","a","^","b">>,                  \* -a^b
      <<"a","/","b">>,                      \* a/b
      <<"a","+">>,                          \* a+
      <<"(","a","+","b">>,                  \* (a+b
      <<"a","+","b",")">>,                  \* a+b)
      <<"a"," ","b">>,                      \* a b
      <<"a","+","d">>,                      \* a+d
      <<"a","#","b">>,                      \* a#b
      <<"1","/","0">>,                      \* 1/0
      <<"0","/","0">>,                      \* 0/0
      <<"1","/","(","1","/","0",")">>,      \* 1/(1/0)
      <<"a","/","(","b","/","c",")">>,      \* a/(b/c)
      <<"0",".","5">>,                      \* 0.5
      <<".","5">>,                          \* .5
      <<"2","e","3">>,                      \* 2e3
      <<"1",".","5","E","1">>,              \* 1.5E1
      <<"1","e","-","3">>,                  \* 1e-3
      <<"1",".","2",".","3">>,              \* 1.2.3
      <<"1",".",".","2">>,                  \* 1..2
      <<"1","e">>,                          \* 1e
      <<".">>,                              \* .
      <<".","e","1">>,                      \* .e1
      <<"t","o","S","t","r","i","n","g">>,  \* toString
      <<"v","a","l","u","e","O","f","+","1">>, \* valueOf+1
      <<" ","\t"," ">> }

Values == {Num(0), Num(1), Num(2)}

\* {a, b, c} with every value, and maps with a missing or non-numeric variable
FullVariableMaps == [{A, B, C} -> Values]
PartialVariableMaps == {<<>>, (A :> Num(2)), (A :> NaN), (A :> Num(2)) @@ (B :> Num(3))}

(***************************************************************************)
(* Specification of the formula evaluator: evaluate applied once to an     *)
(* input                                                                   *)
(***************************************************************************)
NoResult == [value |-> Null, error |-> Null]

EvalIdle ==
    /\ formula = <<>> /\ variables = <<>> /\ result = NoResult
    /\ validation = <<>> /\ extracted = <<>>
EmisIdle == activity = <<>> /\ emissions = <<>>
PcfIdle == products = <<>> /\ allocationSettings = <<>> /\ pcf = <<>>
CbamIdle == cbamConfig = <<>> /\ projection = <<>> /\ referenceData = <<>>
CompareIdle == baseConfig = <<>> /\ scenarios = <<>> /\ scenarioResults = <<>>
StoreIdle == db = <<>> /\ fetched = <<>> /\ appState = <<>>

evalVars == <<formula, variables, result, validation, extracted>>
emisVars == <<activity, emissions>>
pcfVars == <<products, allocationSettings, pcf>>
cbamVars == <<cbamConfig, projection, referenceData>>
compareVars == <<baseConfig, scenarios, scenarioResults>>
storeVars == <<db, fetched, appState>>

InitEval ==
    /\ pc = "ready"
    /\ \/ formula \in GivenFormulas /\ variables \in FullVariableMaps \cup PartialVariableMaps
       \/ formula \in ShortFormulas /\ variables \in PartialVariableMaps
    /\ result = NoResult
    /\ validation = <<>> /\ extracted = <<>>
    /\ EmisIdle /\ PcfIdle /\ CbamIdle /\ CompareIdle /\ StoreIdle

Evaluate ==
    /\ pc = "ready"
    /\ result' = evaluate(formula, variables)
    /\ pc' = "done"
    /\ UNCHANGED <<formula, variables, validation, extracted, emisVars, pcfVars, cbamVars, compareVars, storeVars>>

NextEval == Evaluate

SpecEval == InitEval /\ [][NextEval]_vars

\* The number model covers every value a formula of the input sets computes.
NoIrrational == result.value # Irrational

(***************************************************************************)
(* Properties of the formula evaluator                                     *)
(***************************************************************************)
Ok(x) == [value |-> x, error |-> Null]
Failed(r) == r.value = Null /\ r.error # Null
Done == pc = "done"
HasABC == {A, B, C} \subseteq DOMAIN variables
va == OrZero(variables[A])
vb == OrZero(variables[B])
vc == OrZero(variables[C])

\* the identifiers the tokenizer reads in f
Identifiers(f) ==
    LET t == tokenize(f) IN
    IF t.error # Null THEN {}
    ELSE {t.tokens[i].value : i \in {j \in 1..Len(t.tokens) : t.tokens[j].type = "IDENT"}}

HasUnexpectedCharacter(f) ==
    \E i \in 1..Len(f) :
        ~(IsSpace(f[i]) \/ IsNumberChar(f[i]) \/ IsIdentChar(f[i]) \/ IsOperator(f[i]))

\* C3: evaluate always returns a result object: a blank formula gives
\* {value: 0, error: null}; a formula with an unknown identifier, an unexpected
\* character or the syntax error "a+" gives value null and an error; exactly
\* one of value and error is null.
C3_EvaluateAlwaysAnswers ==
    Done =>
        /\ (result.value = Null) # (result.error = Null)
        /\ IsBlank(formula) => result = Ok(Zero)
        /\ (~IsBlank(formula) /\ Identifiers(formula) \ DOMAIN variables # {})
              => Failed(result)
        /\ (~IsBlank(formula) /\ HasUnexpectedCharacter(formula)) => Failed(result)
        /\ formula = <<"a", "+">> => Failed(result)

\* C4: '*' '/' bind tighter than '+' '-', '^' tighter than '*' '/'; '+' '-'
\* '*' '/' group to the left, '^' to the right; parentheses override.
C4_PrecedenceAndAssociativity ==
    Done =>
        /\ formula = <<"2","+","3","*","4">> => result = Ok(Num(14))
        /\ formula = <<"2","*","3","+","4">> => result = Ok(Num(10))
        /\ formula = <<"(","2","+","3",")","*","4">> => result = Ok(Num(20))
        /\ formula = <<"8","-","3","-","2">> => result = Ok(Num(3))
        /\ formula = <<"8","/","4","/","2">> => result = Ok(Num(1))
        /\ formula = <<"2","^","3","^","2">> => result = Ok(Num(512))
        /\ formula = <<"2","*","3","^","2">> => result = Ok(Num(18))
        /\ (formula = <<"a","^","b">> /\ {A, B} \subseteq DOMAIN variables)
              => result = Ok(MathPow(va, vb))
        /\ HasABC =>
            /\ formula = <<"a","+","b","*","c">> => result = Ok(NAdd(va, NMul(vb, vc)))
            /\ formula = <<"a","-","b","-","c">> => result = Ok(NSub(NSub(va, vb), vc))
            /\ formula = <<"a","-","b","+","c">> => result = Ok(NAdd(NSub(va, vb), vc))
            /\ formula = <<"a","*","b","^","c">> => result = Ok(NMul(va, MathPow(vb, vc)))
            /\ formula = <<"a","^","b","^","c">> => result = Ok(MathPow(va, MathPow(vb, vc)))
            /\ formula = <<"(","a","+","b",")","*","c">> => result = Ok(NMul(NAdd(va, vb), vc))
            /\ formula = <<"a","/","(","b","+","1",")","/","(","c","+","1",")">>
                  => result = Ok(NDiv(NDiv(va, NAdd(vb, One)), NAdd(vc, One)))

\* a^b^c evaluated where the grouping decides the value: 2^(1^2) = 2, (2^1)^2 = 4
C4_Witness ==
    /\ Done /\ formula = <<"a","^","b","^","c">> /\ HasABC
    /\ va = Num(2) /\ vb = Num(1) /\ vc = Num(2)
    /\ result = Ok(Num(2))

\* C5 as stated: evaluate("-2^2") is -4, and -x^y is -(x^y).
C5_UnaryMinusLooserThanPower ==
    Done =>
        /\ formula = <<"-","2","^","2">> => result = Ok(Num(-4))
        /\ (formula = <<"-","a","^","b">> /\ HasABC)
              => result = Ok(NNeg(MathPow(va, vb)))

\* C5 amended: the minus belongs to the operand it precedes, so
\* evaluate("-2^2") is 4, and -x^y is (-x)^y.
C5_UnaryMinusTighterThanPower ==
    Done =>
        /\ formula = <<"-","2","^","2">> => result = Ok(Num(4))
        /\ (formula = <<"-","a","^","b">> /\ HasABC)
              => result = Ok(MathPow(NNeg(va), vb))

C5_Witness ==
    /\ Done /\ formula = <<"-","a","^","b">> /\ HasABC
    /\ va = Num(2) /\ vb = Num(2) /\ result = Ok(Num(4))

\* C6: a formula whose evaluation divides by zero, or whose result is not
\* finite, returns value null with an error; the value is never Infinity or NaN.
C6_DivisionByZeroIsAnError ==
    Done =>
        /\ result.value # Null => (IsFinite(result.value) /\ ~IsNaN(result.value))
        /\ formula \in {<<"1","/","0">>, <<"0","/","0">>, <<"1","/","(","1","/","0",")">>}
              => Failed(result)
        /\ (formula = <<"a","/","b">> /\ HasABC /\ vb = Zero) => Failed(result)
        /\ (formula = <<"a","/","(","b","/","c",")">> /\ HasABC
              /\ (vc = Zero \/ NDiv(vb, vc) = Zero)) => Failed(result)

\* C7: a well-formed decimal literal, with or without exponent, evaluates to
\* its decimal value; a malformed one makes evaluate fail.
C7_NumericLiterals ==
    Done =>
        /\ formula = <<"0",".","5">> => result = Ok(Rat(1, 2))
        /\ formula = <<"2","e","3">> => result = Ok(Num(2000))
        /\ formula = <<"1","e","-","3">> => result = Ok(Rat(1, 1000))
        /\ formula \in {<<"1",".","2",".","3">>, <<"1",".",".","2">>, <<"1","e">>}
              => Failed(result)

(***************************************************************************)
(* emissionEngine.js: reference tables                                     *)
(***************************************************************************)
FuelDef(name, ncv, efCO2, efCH4, efN2O, source) ==
    [name |-> name, ncv |-> ncv, ncvUnit |-> "GJ/t",
     efCO2 |-> efCO2, efCH4 |-> efCH4, efN2O |-> efN2O, source |-> source]

DEFAULT_EMISSION_FACTORS ==
    [natural_gas |-> FuelDef("Natural Gas", Num(48), Num(56100), Num(5), Rat(1, 10),
                             "IPCC 2006 Vol.2 Ch.2 Table 2.2"),
     diesel |-> FuelDef("Diesel", Num(43), Num(74100), Num(3), Rat(6, 10),
                        "IPCC 2006 Vol.2 Ch.2 Table 2.2"),
     coke |-> FuelDef("Coke", Rat(282, 10), Num(107000), Num(1), Rat(15, 10),
                      "IPCC 2006 Vol.2 Ch.2 Table 2.3 (anode/carbon)"),
     fuel_oil |-> FuelDef("Fuel Oil (Heavy)", Rat(404, 10), Num(77400), Num(3), Rat(6, 10),
                          "IPCC 2006 Vol.2 Ch.2 Table 2.2"),
     lpg |-> FuelDef("LPG", Rat(473, 10), Num(63100), Num(1), Rat(1, 10),
                     "IPCC 2006 Vol.2 Ch.2 Table 2.2"),
     custom |-> FuelDef("Other (custom)", Num(0), Num(0), Num(0), Num(0), "User-defined")]

\* the 100-year potentials of the fifth assessment report
GWP_AR5 ==
    [CO2 |-> Num(1), CH4 |-> Num(28), N2O |-> Num(265),
     CF4 |-> Num(6630), C2F6 |-> Num(11100)]

\* the gas entries of GWP_AR6; its id and name entries are strings and no
\* input names them as a gas
GWP_AR6 ==
    [CO2 |-> Num(1), CH4 |-> Rat(298, 10), N2O |-> Num(265),
     CF4 |-> Num(6630), C2F6 |-> Num(11100)]

(***************************************************************************)
(* JavaScript values: a numeric field that is absent (undefined) is Null,  *)
(* a string field that is absent is the empty string                       *)
(***************************************************************************)
\* the truthiness of a number or an absent value
Truthy(x) == x # Null /\ x # Zero /\ x # NaN
\* x || y
Or(x, y) == IF Truthy(x) THEN x ELSE y
\* x ?? y
Coalesce(x, y) == IF x # Null THEN x ELSE y
\* Number(x) || 0 where x is a number or absent
NumberOrZero(x) == IF x = Null THEN Zero ELSE OrZero(x)
\* x > 0 where x is a number or absent
GreaterThanZero(x) == x # Null /\ IsPositive(x)

\* seq.map(F)
Map(seq, F(_)) == [i \in 1..Len(seq) |-> F(seq[i])]

\* nums.reduce((s, r) => s + r, 0)
RECURSIVE Sum(_)
Sum(nums) ==
    IF nums = <<>> THEN Zero
    ELSE NAdd(Sum(SubSeq(nums, 1, Len(nums) - 1)), nums[Len(nums)])

\* seq.reduce((s, r) => s + F(r), 0)
SumOver(seq, F(_)) == Sum(Map(seq, F))

\* seq.filter(P)
Filter(seq, P(_)) == SelectSeq(seq, P)

(***************************************************************************)
(* emissionEngine.js: per-entry calculations                               *)
(***************************************************************************)
Thousand == Num(1000)

\* the mass with the division by 1000 left out
GasTonnesUndivided(energyTJ, ef) == NMul(energyTJ, ef)

\* Mass_t = Energy_TJ * EF_kg_per_TJ / 1000
GasTonnes(energyTJ, ef) == NDiv(NMul(energyTJ, ef), Thousand)

\* the factor with the camelCase override of the entry left out
overrideSnakeOnly(snake, camel, default) == Or(snake, default)

\* entry.custom_x || entry.customX || fuelDef.x
overrideOr(snake, camel, default) == Or(snake, Or(camel, default))

\* calcCombustionEmissions(entry, null, gwp)
calcCombustionEmissions(entry, gwp) ==
    LET fuelId == IF entry.fuel_type_id # "" THEN entry.fuel_type_id ELSE entry.fuelTypeId
        fuelDef == IF fuelId \in DOMAIN DEFAULT_EMISSION_FACTORS
                   THEN DEFAULT_EMISSION_FACTORS[fuelId]
                   ELSE DEFAULT_EMISSION_FACTORS.custom
        ncv == overrideOr(entry.custom_ncv, entry.customNcv, fuelDef.ncv)
        efCO2 == overrideOr(entry.custom_ef_co2, entry.customEfCo2, fuelDef.efCO2)
        efCH4 == overrideOr(entry.custom_ef_ch4, entry.customEfCh4, fuelDef.efCH4)
        efN2O == overrideOr(entry.custom_ef_n2o, entry.customEfN2o, fuelDef.efN2O)
        quantity == NumberOrZero(entry.quantity)
        energyGJ == NMul(quantity, ncv)
        energyTJ == NDiv(energyGJ, Thousand)
        co2Tonnes == GasTonnes(energyTJ, efCO2)
        ch4Tonnes == GasTonnes(energyTJ, efCH4)
        n2oTonnes == GasTonnes(energyTJ, efN2O)
        co2e == NAdd(NAdd(NMul(co2Tonnes, gwp.CO2), NMul(ch4Tonnes, gwp.CH4)),
                     NMul(n2oTonnes, gwp.N2O))
        sourceOf(override) == IF Truthy(override) THEN "user_override" ELSE fuelDef.source
        lineage ==
            [quantity |-> quantity,
             ncv |-> ncv,
             ncvSource |-> IF Truthy(entry.custom_ncv) THEN "user_override" ELSE "default",
             energyGJ |-> energyGJ,
             energyTJ |-> energyTJ,
             efCO2 |-> efCO2, efCO2Source |-> sourceOf(entry.custom_ef_co2),
             efCH4 |-> efCH4, efCH4Source |-> sourceOf(entry.custom_ef_ch4),
             efN2O |-> efN2O, efN2OSource |-> sourceOf(entry.custom_ef_n2o),
             gwpCH4 |-> gwp.CH4, gwpN2O |-> gwp.N2O,
             co2 |-> co2Tonnes, ch4 |-> ch4Tonnes, n2o |-> n2oTonnes, co2e |-> co2e]
    IN [energyTJ |-> energyTJ, co2 |-> co2Tonnes, ch4 |-> ch4Tonnes,
        n2o |-> n2oTonnes, co2e |-> co2e, lineage |-> lineage]

\* calcElectricityEmissions(entry)
calcElectricityEmissions(entry) ==
    LET mwh == NumberOrZero(entry.mwh)
        ef == NumberOrZero(entry.ef)
    IN [co2e |-> NMul(mwh, ef)]

\* calcAnodeEmissions(params)
calcAnodeEmissions(params) ==
    LET production == NumberOrZero(params.metalProduction)
        anodeRate == NumberOrZero(params.netAnodeConsumption)
        carbonFraction == NumberOrZero(params.anodeCarbonFraction)
        sulfurFraction == NumberOrZero(params.anodeSulfurFraction)
        ashFraction == NumberOrZero(params.anodeAshFraction)
        anodeConsumptionT == NDiv(NMul(production, anodeRate), Thousand)
        effectiveCarbon == NSub(NSub(carbonFraction, sulfurFraction), ashFraction)
    IN [co2 |-> NMul(NMul(anodeConsumptionT, effectiveCarbon), NDiv(Num(44), Num(12)))]

\* calcPFCEmissions(params, gwp)
calcPFCEmissions(params, gwp) ==
    LET production == NumberOrZero(params.metalProduction)
        aem == NumberOrZero(params.aemMinutes)
        slopeFactor == NumberOrZero(params.cf4SlopeFactor)
        ratio == NumberOrZero(params.c2f6Cf4Ratio)
        cf4 == NMul(NMul(production, aem), slopeFactor)
        c2f6 == NMul(cf4, ratio)
    IN [cf4 |-> cf4, c2f6 |-> c2f6,
        co2e |-> NAdd(NMul(cf4, gwp.CF4), NMul(c2f6, gwp.C2F6))]

\* the variable map calcEmissionBlock builds from the first n parameters
RECURSIVE BlockVariables(_, _)
BlockVariables(parameters, n) ==
    IF n = 0 THEN <<>>
    ELSE LET p == parameters[n]
             v == Coalesce(p.value, Coalesce(p.defaultValue, Zero))
             before == BlockVariables(parameters, n - 1)
         IN [k \in DOMAIN before \cup {p.key} |-> IF k = p.key THEN v ELSE before[k]]

\* the factor of a gas with 0 for a gas the set does not list
GwpFactorOrZero(gwp, gas) == IF gas \in DOMAIN gwp THEN gwp[gas] ELSE Zero

\* gwp[gas] || 1
GwpFactor(gwp, gas) == IF gas \in DOMAIN gwp THEN Or(gwp[gas], One) ELSE One

\* the result of a block of the given gas whose formula evaluated to r
blockOutcome(gas, r, gwp) ==
    IF r.error # Null
    THEN [tonnes |-> Zero, co2e |-> Zero, gas |-> gas, error |-> r.error]
    ELSE [tonnes |-> OrZero(r.value),
          co2e |-> NMul(OrZero(r.value), GwpFactor(gwp, gas)),
          gas |-> gas, error |-> Null]

\* block.outputGas || 'CO2'
outputGas(block) == IF block.outputGas # "" THEN block.outputGas ELSE "CO2"

\* calcEmissionBlock(block, gwp)
calcEmissionBlock(block, gwp) ==
    IF IsBlank(block.formula)
    THEN [tonnes |-> Zero, co2e |-> Zero, gas |-> outputGas(block), error |-> Null]
    ELSE blockOutcome(outputGas(block),
                      evaluate(block.formula,
                               BlockVariables(block.parameters, Len(block.parameters))),
                      gwp)

(***************************************************************************)
(* emissionEngine.js: calculateTotalEmissions                              *)
(***************************************************************************)
\* evt.process_id || evt.processId
EventProcess(evt) == IF evt.process_id # "" THEN evt.process_id ELSE evt.processId
\* the key `${evt.period}_${processId}` of eventsByPeriod
EventKey(evt) == <<evt.period, EventProcess(evt)>>

\* the keys of eventsByPeriod in insertion order, after the first n events
RECURSIVE EventKeys(_, _)
EventKeys(events, n) ==
    IF n = 0 THEN <<>>
    ELSE LET before == EventKeys(events, n - 1)
             key == EventKey(events[n])
         IN IF \E i \in 1..Len(before) : before[i] = key THEN before
            ELSE Append(before, key)

\* eventsByPeriod[key]: parameter -> the value of the last event giving it
EventParams(events, key) ==
    LET mine == {i \in 1..Len(events) : EventKey(events[i]) = key}
        last(name) == CHOOSE i \in mine :
                          /\ events[i].parameter = name
                          /\ \A j \in mine : events[j].parameter = name => j <= i
    IN [name \in {events[i].parameter : i \in mine} |-> events[last(name)].value]

\* params[snake] || params[camel] || 0
Param(params, snake, camel) ==
    LET get(name) == IF name \in DOMAIN params THEN params[name] ELSE Null
    IN Or(get(snake), Or(get(camel), Zero))

MappedParams(params) ==
    [metalProduction |-> Param(params, "metal_production", "metalProduction"),
     netAnodeConsumption |-> Param(params, "net_anode_consumption", "netAnodeConsumption"),
     anodeCarbonFraction |-> Param(params, "anode_carbon_fraction", "anodeCarbonFraction"),
     anodeSulfurFraction |-> Param(params, "anode_sulfur_fraction", "anodeSulfurFraction"),
     anodeAshFraction |-> Param(params, "anode_ash_fraction", "anodeAshFraction"),
     aemMinutes |-> Param(params, "aem_minutes", "aemMinutes"),
     cf4SlopeFactor |-> Param(params, "cf4_slope_factor", "cf4SlopeFactor"),
     c2f6Cf4Ratio |-> Param(params, "c2f6_cf4_ratio", "c2f6Cf4Ratio")]

Co2eOf(r) == r.co2e
Co2Of(r) == r.co2
Ch4Of(r) == r.ch4
N2oOf(r) == r.n2o
EnergyTJOf(r) == r.energyTJ

\* the process-direct subtotal as a merge of blocks and legacy sources
ProcessDirectMerged(useBlocks, totalBlockCO2e, totalAnodeCO2, totalPFCCO2e) ==
    NAdd(totalBlockCO2e, NAdd(totalAnodeCO2, totalPFCCO2e))

\* useBlocks ? totalBlockCO2e : (totalAnodeCO2 + totalPFCCO2e)
ProcessDirectCO2e(useBlocks, totalBlockCO2e, totalAnodeCO2, totalPFCCO2e) ==
    IF useBlocks THEN totalBlockCO2e ELSE NAdd(totalAnodeCO2, totalPFCCO2e)

\* fuels.map(entry => ({ entryId, ...calcCombustionEmissions(entry, null, gwp) }))
combustionEntry(entry) ==
    [entryId |-> entry.id] @@ calcCombustionEmissions(entry, GWP_AR6)
combustionResults(fuels) == Map(fuels, combustionEntry)

\* combustionResults.reduce(...) over energyTJ, co2, ch4, n2o and co2e
totalCombustion(results) ==
    [energyTJ |-> SumOver(results, EnergyTJOf),
     co2 |-> SumOver(results, Co2Of),
     ch4 |-> SumOver(results, Ch4Of),
     n2o |-> SumOver(results, N2oOf),
     co2e |-> SumOver(results, Co2eOf)]

\* electricity.map(entry => ({ entryId, ...calcElectricityEmissions(entry) }))
electricityEntry(entry) == [entryId |-> entry.id] @@ calcElectricityEmissions(entry)
electricityResults(electricity) == Map(electricity, electricityEntry)

\* the anode and PFC results of the keys of eventsByPeriod, given the
\* mapped parameters of each key
anodeOfKeys(keys, mapped) ==
    LET hasAnode(i) == GreaterThanZero(mapped[i].netAnodeConsumption)
        anode(i) == [period |-> keys[i][1], processId |-> keys[i][2]]
                        @@ calcAnodeEmissions(mapped[i])
    IN Map(Filter([i \in 1..Len(keys) |-> i], hasAnode), anode)

pfcOfKeys(keys, mapped) ==
    LET hasPFC(i) == GreaterThanZero(mapped[i].aemMinutes)
        pfc(i) == [period |-> keys[i][1], processId |-> keys[i][2]]
                      @@ calcPFCEmissions(mapped[i], GWP_AR6)
    IN Map(Filter([i \in 1..Len(keys) |-> i], hasPFC), pfc)

\* mappedParams of every key of eventsByPeriod
mappedOfKeys(processEvents, keys) ==
    [i \in 1..Len(keys) |-> MappedParams(EventParams(processEvents, keys[i]))]

eventsByPeriodKeys(processEvents) == EventKeys(processEvents, Len(processEvents))

anodeResultsOfKeys(processEvents, keys) ==
    anodeOfKeys(keys, mappedOfKeys(processEvents, keys))
pfcResultsOfKeys(processEvents, keys) ==
    pfcOfKeys(keys, mappedOfKeys(processEvents, keys))

anodeResults(processEvents) ==
    anodeResultsOfKeys(processEvents, eventsByPeriodKeys(processEvents))
pfcResults(processEvents) ==
    pfcResultsOfKeys(processEvents, eventsByPeriodKeys(processEvents))

\* emissionBlocks.map(block => ({ blockId, gas, tonnes, co2e, error }))
blockEntry(block) == [blockId |-> block.id] @@ calcEmissionBlock(block, GWP_AR6)
blockResults(emissionBlocks) == Map(emissionBlocks, blockEntry)

\* the object returned, from the totals of each source
emissionsResult(combustion, combustionTotals, electricity, electricityCO2e, anode, totalAnodeCO2, pfc, totalPFCCO2e, blocks, totalBlockCO2e, useBlocks) ==
    LET processDirectCO2e ==
            ProcessDirectCO2e(useBlocks, totalBlockCO2e, totalAnodeCO2, totalPFCCO2e)
        totalDirect == NAdd(combustionTotals.co2e, processDirectCO2e)
        totalIndirect == electricityCO2e
        totalCO2e == NAdd(totalDirect, totalIndirect)
    IN [combustion |-> [entries |-> combustion, totals |-> combustionTotals],
        electricity |-> [entries |-> electricity,
                         totals |-> [co2e |-> electricityCO2e]],
        anode |-> [entries |-> anode,
                   totalCO2 |-> IF useBlocks THEN Zero ELSE totalAnodeCO2],
        pfc |-> [entries |-> pfc,
                 totalCO2e |-> IF useBlocks THEN Zero ELSE totalPFCCO2e],
        emissionBlocks |-> [entries |-> blocks, totalCO2e |-> totalBlockCO2e],
        summary |->
            [directCO2e |-> totalDirect,
             indirectCO2e |-> totalIndirect,
             totalCO2e |-> totalCO2e,
             combustionCO2e |-> combustionTotals.co2e,
             anodeCO2 |-> IF useBlocks THEN Zero ELSE totalAnodeCO2,
             pfcCO2e |-> IF useBlocks THEN Zero ELSE totalPFCCO2e,
             blocksCO2e |-> totalBlockCO2e,
             electricityCO2e |-> electricityCO2e]]

\* the totals of the results of each source
emissionsOfResults(combustion, electricity, anode, pfc, blocks) ==
    emissionsResult(combustion, totalCombustion(combustion),
                    electricity, SumOver(electricity, Co2eOf),
                    anode, SumOver(anode, Co2Of),
                    pfc, SumOver(pfc, Co2eOf),
                    blocks, SumOver(blocks, Co2eOf),
                    Len(blocks) > 0)

calculateTotalEmissions(data) ==
    emissionsOfResults(combustionResults(data.fuels),
                       electricityResults(data.electricity),
                       anodeResults(data.processEvents),
                       pfcResults(data.processEvents),
                       blockResults(data.emissionBlocks))

(***************************************************************************)
(* emissionEngine.js: calculatePCF                                         *)
(***************************************************************************)
\* p.is_residue || p.isResidue
IsResidue(p) == p.is_residue \/ p.isResidue
NotResidue(p) == ~IsResidue(p)

\* the allocatable products with the residue setting ignored
AllocatableProductsAll(ps, settings) == ps

\* treatResidueAsWaste ? products.filter(p => !residue) : products
AllocatableProducts(ps, settings) ==
    IF settings.treatResidueAsWaste THEN Filter(ps, NotResidue) ELSE ps

\* the share without the guard on the total
AllocationShareUnguarded(quantity, totalOutput) == NDiv(quantity, totalOutput)

\* totalOutput > 0 ? quantity / totalOutput : 0
AllocationShare(quantity, totalOutput) ==
    IF IsPositive(totalOutput) THEN NDiv(quantity, totalOutput) ELSE Zero

QuantityOf(p) == NumberOrZero(p.quantity)

calculatePCF(em, ps, settings) ==
    LET allocatableProducts == AllocatableProducts(ps, settings)
        totalOutput == SumOver(allocatableProducts, QuantityOf)
        row(product) ==
            LET quantity == NumberOrZero(product.quantity)
                share == AllocationShare(quantity, totalOutput)
                allocatedDirect == NMul(em.summary.directCO2e, share)
                allocatedIndirect == NMul(em.summary.indirectCO2e, share)
                allocatedTotal == NAdd(allocatedDirect, allocatedIndirect)
                perTonne(x) == IF IsPositive(quantity) THEN NDiv(x, quantity) ELSE Zero
            IN [productId |-> product.id,
                cnCode |-> IF product.cn_code # "" THEN product.cn_code ELSE product.cnCode,
                quantity |-> quantity,
                share |-> share,
                allocatedDirect |-> allocatedDirect,
                allocatedIndirect |-> allocatedIndirect,
                allocatedTotal |-> allocatedTotal,
                pcf |-> perTonne(allocatedTotal),
                pcfDirect |-> perTonne(allocatedDirect),
                pcfIndirect |-> perTonne(allocatedIndirect)]
    IN Map(allocatableProducts, row)

(***************************************************************************)
(* Inputs of calculateTotalEmissions                                       *)
(***************************************************************************)
MaxFuels == 2
MaxElectricity == 1
MaxBlocks == 2

SeqsUpTo(S, n) == UNION {[1..k -> S] : k \in 0..n}

\* the lists of at most n entries of a list, in the order of the list: the
\* entries of an input array have distinct ids
SubLists(list, n) ==
    LET picks == {s \in SeqsUpTo(1..Len(list), n) :
                     \A i \in 1..(Len(s) - 1) : s[i] < s[i + 1]}
    IN {[i \in DOMAIN s |-> list[s[i]]] : s \in picks}

Fuel(id, type, quantity) ==
    [id |-> id, fuel_type_id |-> type, fuelTypeId |-> "", quantity |-> quantity,
     custom_ncv |-> Null, customNcv |-> Null,
     custom_ef_co2 |-> Null, customEfCo2 |-> Null,
     custom_ef_ch4 |-> Null, customEfCh4 |-> Null,
     custom_ef_n2o |-> Null, customEfN2o |-> Null]

FuelEntries ==
    << Fuel("f1", "natural_gas", Num(500)),
      [Fuel("f2", "diesel", Num(100)) EXCEPT !.custom_ncv = Num(40),
                                             !.custom_ef_co2 = Num(70000)],
      [Fuel("f3", "", Num(10)) EXCEPT !.fuelTypeId = "peat",
                                      !.customNcv = Num(20),
                                      !.customEfCo2 = Num(50000),
                                      !.customEfCh4 = Num(2)],
      Fuel("f4", "coke", NaN) >>

Electricity(id, mwh, ef) == [id |-> id, mwh |-> mwh, ef |-> ef]

ElectricityEntries ==
    << Electricity("e1", Num(14500), Rat(328, 1000)),
       Electricity("e2", Num(1000), Null) >>

Event(period, process, parameter, value) ==
    [period |-> period, process_id |-> process, processId |-> "",
     parameter |-> parameter, value |-> value]

AnodeEvents ==
    << Event("2024-01", "p1", "metal_production", Num(100)),
       Event("2024-01", "p1", "net_anode_consumption", Num(400)),
       Event("2024-01", "p1", "anode_carbon_fraction", Rat(95, 100)),
       Event("2024-01", "p1", "anode_sulfur_fraction", Rat(2, 100)),
       Event("2024-01", "p1", "anode_ash_fraction", Rat(1, 100)) >>

PFCEvents ==
    << Event("2024-02", "p1", "metalProduction", Num(100)),
       Event("2024-02", "p1", "aemMinutes", Num(2)),
       Event("2024-02", "p1", "cf4SlopeFactor", Rat(1, 1000)),
       Event("2024-02", "p1", "c2f6Cf4Ratio", Rat(1, 10)) >>

\* one period and process with both sources, a value given twice
BothEvents ==
    << Event("2024-03", "p2", "metal_production", Num(50)),
       Event("2024-03", "p2", "net_anode_consumption", Num(400)),
       Event("2024-03", "p2", "anode_carbon_fraction", Rat(9, 10)),
       [Event("2024-03", "", "aem_minutes", Num(1)) EXCEPT !.processId = "p2"],
       Event("2024-03", "p2", "cf4_slope_factor", Rat(1, 1000)),
       Event("2024-03", "p2", "metal_production", Num(200)) >>

EventLists == {<<>>, AnodeEvents \o PFCEvents, BothEvents}

Parameter(key, value, defaultValue) ==
    [key |-> key, value |-> value, defaultValue |-> defaultValue]

Block(id, gas, f, parameters) ==
    [id |-> id, outputGas |-> gas, formula |-> f, parameters |-> parameters]

Blocks ==
    << Block("b1", "CO2", <<"a", "*", "b">>,
            <<Parameter(A, Num(2), Null), Parameter(B, Num(3), Null)>>),
      Block("b2", "CF4", <<"a", "/", "b">>,
            <<Parameter(A, Num(1), Null), Parameter(B, Num(0), Null)>>),
      Block("b3", "CH4", <<"a", "+">>, <<Parameter(A, Num(1), Null)>>),
      Block("b4", "SF6", <<"a", "*", "b">>,
            <<Parameter(A, Num(2), Null), Parameter(B, Null, Num(5))>>),
      Block("b5", "", <<>>, <<>>),
      Block("b6", "N2O", <<"a", "-", "b">>,
            <<Parameter(A, Num(3), Null), Parameter(B, Null, Null),
              Parameter(A, Num(4), Null)>>),
      Block("b7", "C2F6", <<"a", "*", "d">>, <<Parameter(A, Num(1), Null)>>) >>

Activities ==
    [fuels : SubLists(FuelEntries, MaxFuels),
     electricity : SubLists(ElectricityEntries, MaxElectricity),
     processEvents : EventLists,
     emissionBlocks : SubLists(Blocks, MaxBlocks)]

(***************************************************************************)
(* Specification of the emission engine: calculateTotalEmissions applied   *)
(* once to an activity data set                                            *)
(***************************************************************************)
InitEmis ==
    /\ pc = "ready"
    /\ activity \in Activities
    /\ emissions = <<>>
    /\ EvalIdle /\ PcfIdle /\ CbamIdle /\ CompareIdle /\ StoreIdle

CalculateTotalEmissions ==
    /\ pc = "ready"
    /\ emissions' = calculateTotalEmissions(activity)
    /\ pc' = "done"
    /\ UNCHANGED <<activity, evalVars, pcfVars, cbamVars, compareVars, storeVars>>

NextEmis == CalculateTotalEmissions

SpecEmis == InitEmis /\ [][NextEmis]_vars

(***************************************************************************)
(* Properties of the emission engine                                       *)
(***************************************************************************)
WithoutBlocks(a) == [a EXCEPT !.emissionBlocks = <<>>]
OnlyBlock(a, i) ==
    [fuels |-> <<>>, electricity |-> <<>>, processEvents |-> <<>>,
     emissionBlocks |-> <<a.emissionBlocks[i]>>]

\* C1: the process-direct subtotal is a switch: with emission blocks,
\* direct = combustion + blocks and the summary's anode and PFC figures are 0
\* while the anode and PFC entries are returned as without blocks; with no
\* block, direct = combustion + anode + PFC.  Indirect is the electricity total
\* and total = direct + indirect.
C1_BlocksReplaceLegacy ==
    Done =>
        LET s == emissions.summary
            combustionCO2e == SumOver(emissions.combustion.entries, Co2eOf)
            blocksCO2e == SumOver(emissions.emissionBlocks.entries, Co2eOf)
            anodeCO2 == SumOver(emissions.anode.entries, Co2Of)
            pfcCO2e == SumOver(emissions.pfc.entries, Co2eOf)
            legacy == calculateTotalEmissions(WithoutBlocks(activity))
        IN /\ IF Len(activity.emissionBlocks) > 0
              THEN /\ s.directCO2e = NAdd(combustionCO2e, blocksCO2e)
                   /\ s.anodeCO2 = Zero /\ s.pfcCO2e = Zero
                   /\ emissions.anode.totalCO2 = Zero /\ emissions.pfc.totalCO2e = Zero
                   /\ emissions.anode.entries = legacy.anode.entries
                   /\ emissions.pfc.entries = legacy.pfc.entries
              ELSE /\ s.directCO2e = NAdd(NAdd(combustionCO2e, anodeCO2), pfcCO2e)
                   /\ s.anodeCO2 = anodeCO2 /\ s.pfcCO2e = pfcCO2e
           /\ s.indirectCO2e = SumOver(emissions.electricity.entries, Co2eOf)
           /\ s.totalCO2e = NAdd(s.directCO2e, s.indirectCO2e)

\* blocks and legacy sources both present and both non-zero
C1_Witness ==
    /\ Done
    /\ Len(activity.emissionBlocks) > 0
    /\ emissions.emissionBlocks.totalCO2e # Zero
    /\ Len(emissions.anode.entries) > 0
    /\ SumOver(emissions.anode.entries, Co2Of) # Zero
    /\ emissions.summary.anodeCO2 = Zero

\* C2: per fuel entry energyGJ = quantity * NCV, energyTJ = energyGJ / 1000,
\* each gas mass = energyTJ * EF / 1000 from that energyTJ, and
\* co2e = the sum of mass * GWP over the three gases.
C2_CombustionFormula ==
    Done =>
        \A i \in 1..Len(activity.fuels) :
            LET r == emissions.combustion.entries[i]
                l == r.lineage
            IN /\ l.energyGJ = NMul(NumberOrZero(activity.fuels[i].quantity), l.ncv)
               /\ r.energyTJ = NDiv(l.energyGJ, Num(1000))
               /\ r.co2 = NDiv(NMul(r.energyTJ, l.efCO2), Num(1000))
               /\ r.ch4 = NDiv(NMul(r.energyTJ, l.efCH4), Num(1000))
               /\ r.n2o = NDiv(NMul(r.energyTJ, l.efN2O), Num(1000))
               /\ r.co2e = NAdd(NAdd(NMul(r.co2, Num(1)), NMul(r.ch4, Rat(298, 10))),
                                NMul(r.n2o, Num(265)))

C2_Witness ==
    /\ Done
    /\ \E i \in 1..Len(activity.fuels) :
          /\ activity.fuels[i].id = "f2"
          /\ emissions.combustion.entries[i].energyTJ = Num(4)
          /\ emissions.combustion.entries[i].co2 = Num(280)
          /\ emissions.combustion.entries[i].ch4 = Rat(12, 1000)

\* C8: a block whose formula fails gives tonnes 0, co2e 0 and the error, and
\* leaves every other block's result as it is alone; the blocks' total is the
\* sum over the blocks that evaluate of value * GWP(gas), 1 for an unlisted gas.
BlockGwp(gas) ==
    CASE gas \in {"", "CO2"} -> Num(1)
      [] gas = "CH4" -> Rat(298, 10)
      [] gas = "N2O" -> Num(265)
      [] gas = "CF4" -> Num(6630)
      [] gas = "C2F6" -> Num(11100)
      [] OTHER -> Num(1)

BlockEvaluation(b) == evaluate(b.formula, BlockVariables(b.parameters, Len(b.parameters)))

BlockExpectedCO2e(b) ==
    IF BlockEvaluation(b).error # Null THEN Zero
    ELSE NMul(BlockEvaluation(b).value, BlockGwp(b.outputGas))

MaxProducts == 3

Product(id, quantity, residueSnake, residueCamel) ==
    [id |-> id, cn_code |-> "", cnCode |-> "7601", quantity |-> quantity,
     is_residue |-> residueSnake, isResidue |-> residueCamel,
     isComplex |-> FALSE, precursors |-> <<>>]

\* a precursor of a complex good: its mass and its specific embedded emissions
Precursor(id, mass, see) == [id |-> id, mass |-> mass, see |-> see]

\* a good whose CN code is classified as complex (isComplex stands for
\* getCnCodeInfo(p.cnCode)?.isComplex), with its precursors
ComplexProduct(id, quantity, precursors) ==
    [Product(id, quantity, FALSE, FALSE) EXCEPT !.cnCode = "7604",
                                                 !.isComplex = TRUE,
                                                 !.precursors = precursors]

ProductEntries ==
    { Product("ingot", Num(300), FALSE, FALSE),
      Product("billet", Num(100), FALSE, FALSE),
      Product("dross", Num(100), TRUE, FALSE),
      Product("scrap", Num(50), FALSE, TRUE),
      Product("idle", Num(0), FALSE, FALSE),
      Product("unknown", NaN, FALSE, FALSE),
      ComplexProduct("profile", Num(200),
                     <<Precursor("pc1", Num(100), Rat(187, 100)),
                       Precursor("pc2", Num(10), Null)>>) }

AllocationSettings == [method : {"mass"}, treatResidueAsWaste : BOOLEAN]

\* the activity whose emissions are allocated
PcfActivities ==
    { [fuels |-> <<>>, electricity |-> <<>>, processEvents |-> <<>>, emissionBlocks |-> <<>>],
      [fuels |-> <<Fuel("f1", "natural_gas", Num(500))>>,
       electricity |-> <<Electricity("e1", Num(14500), Rat(328, 1000))>>,
       processEvents |-> <<>>, emissionBlocks |-> <<>>],
      [fuels |-> <<>>, electricity |-> <<>>, processEvents |-> BothEvents,
       emissionBlocks |-> <<>>] }

(***************************************************************************)
(* Specification of the allocation engine: calculatePCF applied once to    *)
(* the emissions of an activity data set and a product list                *)
(***************************************************************************)
InitPcf ==
    /\ pc = "ready"
    /\ activity \in PcfActivities
    /\ emissions = calculateTotalEmissions(activity)
    /\ products \in SeqsUpTo(ProductEntries, MaxProducts)
    /\ allocationSettings \in AllocationSettings
    /\ pcf = <<>>
    /\ EvalIdle /\ CbamIdle /\ CompareIdle /\ StoreIdle

CalculatePCF ==
    /\ pc = "ready"
    /\ pcf' = calculatePCF(emissions, products, allocationSettings)
    /\ pc' = "done"
    /\ UNCHANGED <<products, allocationSettings, emisVars, evalVars, cbamVars, compareVars, storeVars>>

NextPcf == CalculatePCF

SpecPcf == InitPcf /\ [][NextPcf]_vars

(***************************************************************************)
(* Properties of the allocation engine                                     *)
(***************************************************************************)
ShareOf(r) == r.share

\* the products calculatePCF does not exclude
Excluded(p) == allocationSettings.treatResidueAsWaste /\ (p.is_residue \/ p.isResidue)
Eligible(p) == ~Excluded(p)
EligibleProducts == SelectSeq(products, Eligible)
EligibleQuantity == SumOver(EligibleProducts, QuantityOf)

\* C9: the shares of the non-excluded products sum to 1 when their total
\* quantity is greater than 0, and are all 0 when it is 0.
C9_SharesSumToOne ==
    Done =>
        /\ IsPositive(EligibleQuantity) => SumOver(pcf, ShareOf) = One
        /\ EligibleQuantity = Zero => \A i \in 1..Len(pcf) : pcf[i].share = Zero

\* several products share the emissions, one is excluded
C9_Witness ==
    /\ Done
    /\ Len(products) = 3 /\ Len(pcf) = 2
    /\ pcf[1].share = Rat(3, 4) /\ pcf[2].share = Rat(1, 4)

\* the row calculatePCF is to report for an eligible product
ExpectedShare(p) ==
    IF IsPositive(EligibleQuantity) THEN NDiv(QuantityOf(p), EligibleQuantity) ELSE Zero

RowMatches(r, p, share) ==
    /\ r.productId = p.id
    /\ r.share = share
    /\ r.allocatedDirect = NMul(emissions.summary.directCO2e, share)
    /\ r.allocatedIndirect = NMul(emissions.summary.indirectCO2e, share)

PrecursorEmission(prec) == NMul(NumberOrZero(prec.mass), NumberOrZero(prec.see))

\* the precursor emissions of a product: the sum over its precursors for a
\* complex good that has precursors, 0 otherwise
PrecursorSum(p) ==
    IF p.isComplex /\ Len(p.precursors) > 0
    THEN SumOver(p.precursors, PrecursorEmission)
    ELSE Zero

\* the specific embedded emissions the claim gives a product whose row is r
ExpectedSEE(r, p) ==
    IF QuantityOf(p) = Zero THEN Zero
    ELSE NDiv(NAdd(NAdd(r.allocatedDirect, r.allocatedIndirect), PrecursorSum(p)),
              QuantityOf(p))

\* C11: for every product that has a row, the specific embedded emissions of
\* the row are (allocatedDirect + allocatedIndirect + precursorSum) / quantity
\* with the precursor sum of a complex good added in full, 0 when the quantity
\* is 0, and the direct and indirect values leave the precursors out.
C11_SeeIncludesPrecursors ==
    Done =>
        \A i \in 1..Len(pcf) :
            LET p == EligibleProducts[i]
                r == pcf[i]
            IN IsFinite(QuantityOf(p)) =>
                /\ r.pcf = ExpectedSEE(r, p)
                /\ QuantityOf(p) # Zero =>
                      /\ r.pcfDirect = NDiv(r.allocatedDirect, QuantityOf(p))
                      /\ r.pcfIndirect = NDiv(r.allocatedIndirect, QuantityOf(p))

(***************************************************************************)
(* cbamReferenceData.js: the reference tables                              *)
(***************************************************************************)
\* the free allocation phase-out from 2026 to 2034
CBAM_PHASE_IN ==
    << [year |-> 2026, freeAllocation |-> Rat(975, 1000), payableShare |-> Rat(25, 1000)],
       [year |-> 2027, freeAllocation |-> Rat(950, 1000), payableShare |-> Rat(50, 1000)],
       [year |-> 2028, freeAllocation |-> Rat(900, 1000), payableShare |-> Rat(100, 1000)],
       [year |-> 2029, freeAllocation |-> Rat(825, 1000), payableShare |-> Rat(175, 1000)],
       [year |-> 2030, freeAllocation |-> Rat(725, 1000), payableShare |-> Rat(275, 1000)],
       [year |-> 2031, freeAllocation |-> Rat(600, 1000), payableShare |-> Rat(400, 1000)],
       [year |-> 2032, freeAllocation |-> Rat(450, 1000), payableShare |-> Rat(550, 1000)],
       [year |-> 2033, freeAllocation |-> Rat(250, 1000), payableShare |-> Rat(750, 1000)],
       [year |-> 2034, freeAllocation |-> Rat(0, 1000), payableShare |-> Rat(1000, 1000)] >>

\* certificate price scenarios, EUR per tonne of CO2
CBAM_CERT_PRICE ==
    << [year |-> 2026, low |-> Rat(744, 10), mid |-> Num(93), high |-> Rat(1116, 10)],
       [year |-> 2027, low |-> Rat(760, 10), mid |-> Num(95), high |-> Rat(1140, 10)],
       [year |-> 2028, low |-> Rat(784, 10), mid |-> Num(98), high |-> Rat(1176, 10)],
       [year |-> 2029, low |-> Rat(808, 10), mid |-> Num(101), high |-> Rat(1212, 10)],
       [year |-> 2030, low |-> Rat(840, 10), mid |-> Num(105), high |-> Rat(1260, 10)],
       [year |-> 2031, low |-> Rat(880, 10), mid |-> Num(110), high |-> Rat(1320, 10)],
       [year |-> 2032, low |-> Rat(920, 10), mid |-> Num(115), high |-> Rat(1380, 10)],
       [year |-> 2033, low |-> Rat(960, 10), mid |-> Num(120), high |-> Rat(1440, 10)],
       [year |-> 2034, low |-> Rat(1000, 10), mid |-> Num(125), high |-> Rat(1500, 10)] >>

\* carbon credit price scenarios and the quota share
KZ_ETS_PRICE ==
    << [year |-> 2026, low |-> Num(1), mid |-> Num(5), high |-> Num(10), quotaShare |-> Rat(125, 10000)],
       [year |-> 2027, low |-> Rat(15, 10), mid |-> Num(5), high |-> Num(10), quotaShare |-> Rat(25, 1000)],
       [year |-> 2028, low |-> Num(2), mid |-> Num(5), high |-> Num(10), quotaShare |-> Rat(50, 1000)],
       [year |-> 2029, low |-> Rat(25, 10), mid |-> Rat(75, 10), high |-> Rat(125, 10), quotaShare |-> Rat(100, 1000)],
       [year |-> 2030, low |-> Num(3), mid |-> Num(10), high |-> Num(15), quotaShare |-> Rat(150, 1000)],
       [year |-> 2031, low |-> Num(4), mid |-> Num(12), high |-> Num(18), quotaShare |-> Rat(200, 1000)],
       [year |-> 2032, low |-> Num(5), mid |-> Num(15), high |-> Num(20), quotaShare |-> Rat(250, 1000)],
       [year |-> 2033, low |-> Num(6), mid |-> Num(18), high |-> Num(25), quotaShare |-> Rat(300, 1000)],
       [year |-> 2034, low |-> Num(8), mid |-> Num(20), high |-> Num(30), quotaShare |-> Rat(350, 1000)] >>

\* aluminium price scenarios
AL_PRICE_FORECAST ==
    << [year |-> 2026, low |-> Num(2125), mid |-> Num(2500), high |-> Num(2875)],
       [year |-> 2027, low |-> Num(2200), mid |-> Num(2600), high |-> Num(3000)],
       [year |-> 2028, low |-> Num(2250), mid |-> Num(2650), high |-> Num(3050)],
       [year |-> 2029, low |-> Num(2300), mid |-> Num(2700), high |-> Num(3100)],
       [year |-> 2030, low |-> Num(2350), mid |-> Num(2800), high |-> Num(3250)],
       [year |-> 2031, low |-> Num(2400), mid |-> Num(2850), high |-> Num(3300)],
       [year |-> 2032, low |-> Num(2450), mid |-> Num(2900), high |-> Num(3350)],
       [year |-> 2033, low |-> Num(2500), mid |-> Num(2950), high |-> Num(3400)],
       [year |-> 2034, low |-> Num(2550), mid |-> Num(3000), high |-> Num(3450)] >>

\* KZ_DEFAULT_VALUES['Aluminium']
KzAluminium ==
    << [cnCode |-> "7601", direct |-> Rat(1870, 1000), indirect |-> Null, total |-> Rat(1870, 1000)],
       [cnCode |-> "7603", direct |-> Rat(1990, 1000), indirect |-> Null, total |-> Rat(1990, 1000)],
       [cnCode |-> "7604 10 10", direct |-> Rat(2210, 1000), indirect |-> Null, total |-> Rat(2210, 1000)],
       [cnCode |-> "7604 10 90", direct |-> Rat(2230, 1000), indirect |-> Null, total |-> Rat(2230, 1000)],
       [cnCode |-> "7604 21 00", direct |-> Rat(2230, 1000), indirect |-> Null, total |-> Rat(2230, 1000)],
       [cnCode |-> "7605", direct |-> Rat(2210, 1000), indirect |-> Null, total |-> Rat(2210, 1000)],
       [cnCode |-> "7606", direct |-> Rat(2670, 1000), indirect |-> Null, total |-> Rat(2670, 1000)],
       [cnCode |-> "7607", direct |-> Rat(2670, 1000), indirect |-> Null, total |-> Rat(2670, 1000)],
       [cnCode |-> "7608", direct |-> Rat(2230, 1000), indirect |-> Null, total |-> Rat(2230, 1000)],
       [cnCode |-> "7609 00 00", direct |-> Rat(2230, 1000), indirect |-> Null, total |-> Rat(2230, 1000)],
       [cnCode |-> "7610", direct |-> Rat(2230, 1000), indirect |-> Null, total |-> Rat(2230, 1000)],
       [cnCode |-> "7611 00 00", direct |-> Rat(2670, 1000), indirect |-> Null, total |-> Rat(2670, 1000)],
       [cnCode |-> "7612", direct |-> Rat(2670, 1000), indirect |-> Null, total |-> Rat(2670, 1000)],
       [cnCode |-> "7613 00 00", direct |-> Rat(2670, 1000), indirect |-> Null, total |-> Rat(2670, 1000)],
       [cnCode |-> "7614", direct |-> Rat(2210, 1000), indirect |-> Null, total |-> Rat(2210, 1000)],
       [cnCode |-> "7616 10 00", direct |-> Rat(2670, 1000), indirect |-> Null, total |-> Rat(2670, 1000)],
       [cnCode |-> "7616 91 00", direct |-> Rat(2670, 1000), indirect |-> Null, total |-> Rat(2670, 1000)],
       [cnCode |-> "7616 99 10", direct |-> Rat(1990, 1000), indirect |-> Null, total |-> Rat(1990, 1000)],
       [cnCode |-> "7616 99 90", direct |-> Rat(2670, 1000), indirect |-> Null, total |-> Rat(2670, 1000)] >>

\* KZ_DEFAULT_VALUES['Cement']
KzCement ==
    << [cnCode |-> "2523 10 00", direct |-> Rat(1350, 1000), indirect |-> Rat(40, 1000), total |-> Rat(1390, 1000)],
       [cnCode |-> "2523 29 00", direct |-> Rat(1350, 1000), indirect |-> Rat(70, 1000), total |-> Rat(1420, 1000)],
       [cnCode |-> "2523 90 00", direct |-> Rat(1280, 1000), indirect |-> Rat(70, 1000), total |-> Rat(1350, 1000)] >>

\* KZ_DEFAULT_VALUES['Fertilisers']
KzFertilisers ==
    << [cnCode |-> "2808 00 00", direct |-> Rat(2730, 1000), indirect |-> Rat(40, 1000), total |-> Rat(2770, 1000)],
       [cnCode |-> "2814 10 00", direct |-> Rat(2160, 1000), indirect |-> Rat(140, 1000), total |-> Rat(2300, 1000)],
       [cnCode |-> "2814 20 00", direct |-> Rat(650, 1000), indirect |-> Rat(40, 1000), total |-> Rat(690, 1000)],
       [cnCode |-> "3102 10 19", direct |-> Rat(1470, 1000), indirect |-> Rat(110, 1000), total |-> Rat(1580, 1000)],
       [cnCode |-> "3102 30 90", direct |-> Rat(2570, 1000), indirect |-> Rat(110, 1000), total |-> Rat(2670, 1000)],
       [cnCode |-> "3102 40 10", direct |-> Rat(2200, 1000), indirect |-> Rat(100, 1000), total |-> Rat(2300, 1000)],
       [cnCode |-> "3105 30 00", direct |-> Rat(510, 1000), indirect |-> Rat(60, 1000), total |-> Rat(570, 1000)] >>

\* KZ_DEFAULT_VALUES['Iron & Steel']
KzIronAndSteel ==
    << [cnCode |-> "2601 12 00", direct |-> Rat(170, 1000), indirect |-> Rat(170, 1000), total |-> Rat(340, 1000)],
       [cnCode |-> "7201", direct |-> Rat(4960, 1000), indirect |-> Null, total |-> Rat(4960, 1000)],
       [cnCode |-> "7202 11", direct |-> Rat(1690, 1000), indirect |-> Null, total |-> Rat(1690, 1000)],
       [cnCode |-> "7202 41", direct |-> Rat(2350, 1000), indirect |-> Null, total |-> Rat(2350, 1000)],
       [cnCode |-> "7206 10 00", direct |-> Rat(5180, 1000), indirect |-> Null, total |-> Rat(5180, 1000)],
       [cnCode |-> "7207", direct |-> Rat(5180, 1000), indirect |-> Null, total |-> Rat(5180, 1000)],
       [cnCode |-> "7208", direct |-> Rat(5340, 1000), indirect |-> Null, total |-> Rat(5340, 1000)],
       [cnCode |-> "7209", direct |-> Rat(5420, 1000), indirect |-> Null, total |-> Rat(5420, 1000)] >>

\* KZ_DEFAULT_VALUES['Hydrogen']
KzHydrogen ==
    << [cnCode |-> "2804 10 00", direct |-> Rat(10820, 1000), indirect |-> Null, total |-> Rat(10820, 1000)] >>

\* the default values by sector, in the order of Object.keys
KZ_DEFAULT_VALUES ==
    << [sector |-> "Aluminium", entries |-> KzAluminium],
       [sector |-> "Cement", entries |-> KzCement],
       [sector |-> "Fertilisers", entries |-> KzFertilisers],
       [sector |-> "Iron & Steel", entries |-> KzIronAndSteel],
       [sector |-> "Hydrogen", entries |-> KzHydrogen] >>

\* the markup of default values, by schedule and year
MARKUP_SCHEDULE ==
    [standard |->
        << [year |-> 2026, rate |-> Rat(10, 100)],
           [year |-> 2027, rate |-> Rat(20, 100)],
           [year |-> 2028, rate |-> Rat(30, 100)],
           [year |-> 2029, rate |-> Rat(30, 100)],
           [year |-> 2030, rate |-> Rat(30, 100)],
           [year |-> 2031, rate |-> Rat(30, 100)],
           [year |-> 2032, rate |-> Rat(30, 100)],
           [year |-> 2033, rate |-> Rat(30, 100)],
           [year |-> 2034, rate |-> Rat(30, 100)] >>,
     fertilisers |->
        << [year |-> 2026, rate |-> Rat(1, 100)],
           [year |-> 2027, rate |-> Rat(1, 100)],
           [year |-> 2028, rate |-> Rat(1, 100)],
           [year |-> 2029, rate |-> Rat(1, 100)],
           [year |-> 2030, rate |-> Rat(1, 100)],
           [year |-> 2031, rate |-> Rat(1, 100)],
           [year |-> 2032, rate |-> Rat(1, 100)],
           [year |-> 2033, rate |-> Rat(1, 100)],
           [year |-> 2034, rate |-> Rat(1, 100)] >>]

\* whether indirect emissions are in scope, by sector
SCOPE_RULES ==
    ("Aluminium" :> "DIRECT_ONLY") @@ ("Cement" :> "TOTAL") @@
    ("Fertilisers" :> "TOTAL") @@ ("Iron & Steel" :> "DIRECT_ONLY") @@
    ("Hydrogen" :> "DIRECT_ONLY") @@ ("Electricity" :> "DIRECT_ONLY")

\* the module's exported tables
ReferenceData ==
    [CBAM_PHASE_IN |-> CBAM_PHASE_IN,
     CBAM_CERT_PRICE |-> CBAM_CERT_PRICE,
     KZ_ETS_PRICE |-> KZ_ETS_PRICE,
     AL_PRICE_FORECAST |-> AL_PRICE_FORECAST,
     KZ_DEFAULT_VALUES |-> KZ_DEFAULT_VALUES,
     MARKUP_SCHEDULE |-> MARKUP_SCHEDULE,
     SCOPE_RULES |-> SCOPE_RULES]

\* getMarkupSchedule(sector)
getMarkupSchedule(ref, sector) ==
    IF sector = "Fertilisers" THEN ref.MARKUP_SCHEDULE.fertilisers
                              ELSE ref.MARKUP_SCHEDULE.standard

\* getKzDefault(cnCode): the first entry of the first sector that lists the
\* CN code, with the sector added, or null
HasKzDefault(ref, cnCode) ==
    \E k \in 1..Len(ref.KZ_DEFAULT_VALUES) :
        \E i \in 1..Len(ref.KZ_DEFAULT_VALUES[k].entries) :
            ref.KZ_DEFAULT_VALUES[k].entries[i].cnCode = cnCode

getKzDefault(ref, cnCode) ==
    LET values == ref.KZ_DEFAULT_VALUES
        lists(k) == \E i \in 1..Len(values[k].entries) :
                        values[k].entries[i].cnCode = cnCode
        first(k) == CHOOSE i \in 1..Len(values[k].entries) :
                        /\ values[k].entries[i].cnCode = cnCode
                        /\ \A j \in 1..(i - 1) : values[k].entries[j].cnCode # cnCode
        sector == CHOOSE k \in 1..Len(values) :
                        lists(k) /\ \A j \in 1..(k - 1) : ~lists(j)
    IN IF HasKzDefault(ref, cnCode)
       THEN values[sector].entries[first(sector)] @@ [sector |-> values[sector].sector]
       ELSE Null

\* getDefaultScope(sector): SCOPE_RULES[sector] || 'TOTAL'
getDefaultScope(ref, sector) ==
    IF sector \in DOMAIN ref.SCOPE_RULES THEN ref.SCOPE_RULES[sector] ELSE "TOTAL"

\* rows.find(r => r.year === year)
HasYear(rows, year) == \E i \in 1..Len(rows) : rows[i].year = year
FindYear(rows, year) ==
    rows[CHOOSE i \in 1..Len(rows) :
            rows[i].year = year /\ \A j \in 1..(i - 1) : rows[j].year # year]

\* scenario.toLowerCase() for the scenario names in use
toLowerCase ==
    ("LOW" :> "low") @@ ("MID" :> "mid") @@ ("HIGH" :> "high") @@
    ("NONE" :> "none") @@ ("Mid" :> "mid") @@ ("BASE" :> "base") @@
    ("constructor" :> "constructor") @@ ("CONSTRUCTOR" :> "constructor")

\* the lower-case keys every row answers to through Object.prototype
InheritedKeys == {"constructor", "__proto__"}

\* row[key]: undefined for a key the row has neither of its own nor
\* through its prototype
Property(row, key) ==
    IF key \in DOMAIN row THEN row[key]
    ELSE IF key \in InheritedKeys THEN ObjectValue ELSE Null

(***************************************************************************)
(* Math.round, Math.min and Math.max                                       *)
(***************************************************************************)
\* the integer below x, where the nearest is meant
MathFloor(x) ==
    IF ~IsFinite(x) THEN x ELSE Num(x[1] \div x[2])

\* Math.round(x): the nearest integer, a half rounded towards +Infinity
MathRound(x) ==
    IF ~IsFinite(x) THEN x ELSE Num((2 * x[1] + x[2]) \div (2 * x[2]))

\* Math.min(x, y)
MathMin(x, y) ==
    IF IsNaN(ToNumber(x)) \/ IsNaN(ToNumber(y)) THEN NaN ELSE IF NLess(y, x) THEN y ELSE x

\* Math.max(x, y)
MathMax(x, y) ==
    IF IsNaN(ToNumber(x)) \/ IsNaN(ToNumber(y)) THEN NaN ELSE IF NLess(x, y) THEN y ELSE x

\* Math.round(x * 10^k) / 10^k
RoundTo(x, scale) == NDiv(MathRound(NMul(x, Num(scale))), Num(scale))

(***************************************************************************)
(* cbamCalculator.js: calculateCBAMProjection.  A configuration is a       *)
(* function from the keys it has to their values; the tables are read from *)
(* ref.  The values of one year are gathered in a record w, one field per  *)
(* const of the loop body, before the row is rounded.                      *)
(***************************************************************************)
\* a key of the destructuring with its default
Default(config, key, default) == IF key \in DOMAIN config THEN config[key] ELSE default

\* const { basis = 'ACTUAL', scope, ... } = config; an absent scope is ""
destructure(config) ==
    [basis |-> Default(config, "basis", "ACTUAL"),
     scope |-> Default(config, "scope", ""),
     certPriceScenario |-> Default(config, "certPriceScenario", "MID"),
     alPriceScenario |-> Default(config, "alPriceScenario", "MID"),
     carbonCreditEligible |-> Default(config, "carbonCreditEligible", TRUE),
     carbonCreditScenario |-> Default(config, "carbonCreditScenario", "HIGH"),
     importedQty |-> Default(config, "importedQty", Zero),
     cnCode |-> Default(config, "cnCode", ""),
     goodCategory |-> Default(config, "goodCategory", "Aluminium"),
     seeDirect |-> Default(config, "seeDirect", Zero),
     seeIndirect |-> Default(config, "seeIndirect", Zero)]

\* scope || getDefaultScope(goodCategory)
effectiveScope(c, ref) ==
    IF c.scope # "" THEN c.scope ELSE getDefaultScope(ref, c.goodCategory)

\* markupRow ? markupRow.rate : 0.30
markupOf(markupSchedule, year) ==
    IF HasYear(markupSchedule, year) THEN FindYear(markupSchedule, year).rate
                                     ELSE Rat(30, 100)

\* row ? row[scenario.toLowerCase()] || row.mid : 0
scenarioPrice(rows, year, scenario) ==
    IF HasYear(rows, year)
    THEN Or(Property(FindYear(rows, year), toLowerCase[scenario]), FindYear(rows, year).mid)
    ELSE Zero

\* the base value of a default entry: direct, or total || direct
baseValue(defaultEntry, scope) ==
    IF scope = "DIRECT_ONLY" THEN defaultEntry.direct
                             ELSE Or(defaultEntry.total, defaultEntry.direct)

\* the intensity under DEFAULT with the indirect value added to the total
intensityIgnoringScope(c, ref, markup) ==
    IF c.basis = "ACTUAL" THEN NAdd(c.seeDirect, c.seeIndirect)
    ELSE IF HasKzDefault(ref, c.cnCode)
         THEN NMul(baseValue(getKzDefault(ref, c.cnCode), "TOTAL"), NAdd(One, markup))
         ELSE Zero

\* emission intensity, t CO2e per tonne of product
intensity(c, ref, markup) ==
    IF c.basis = "ACTUAL"
    THEN IF effectiveScope(c, ref) = "DIRECT_ONLY" THEN c.seeDirect
                                                   ELSE NAdd(c.seeDirect, c.seeIndirect)
    ELSE IF HasKzDefault(ref, c.cnCode)
         THEN NMul(baseValue(getKzDefault(ref, c.cnCode), effectiveScope(c, ref)),
                   NAdd(One, markup))
         ELSE Zero

\* the values of the year known before the arithmetic
withYear(c, ref, phaseIn) ==
    [year |-> phaseIn.year,
     importedQty |-> c.importedQty,
     payableShare |-> phaseIn.payableShare,
     markup |-> markupOf(getMarkupSchedule(ref, c.goodCategory), phaseIn.year),
     certPrice |-> scenarioPrice(ref.CBAM_CERT_PRICE, phaseIn.year, c.certPriceScenario),
     alPrice |-> scenarioPrice(ref.AL_PRICE_FORECAST, phaseIn.year, c.alPriceScenario)]

withIntensity(w, c, ref) == w @@ [intensity |-> intensity(c, ref, w.markup)]

\* embeddedCO2 = importedQty * intensity
withEmbeddedCO2(w) == w @@ [embeddedCO2 |-> NMul(w.importedQty, w.intensity)]

\* the payable emissions taken on the free allocation
payableOnFreeAllocation(embeddedCO2, payableShare) ==
    NMul(embeddedCO2, NSub(One, payableShare))

\* payableEmissions = embeddedCO2 * phaseIn.payableShare
payableEmissions(embeddedCO2, payableShare) == NMul(embeddedCO2, payableShare)

withPayableEmissions(w) ==
    w @@ [payableEmissions |-> payableEmissions(w.embeddedCO2, w.payableShare)]

\* grossCost = payableEmissions * certPrice
withGrossCost(w) == w @@ [grossCost |-> NMul(w.payableEmissions, w.certPrice)]

\* kzRow[carbonCreditScenario.toLowerCase()] || 0
kzPrice(kzRow, scenario) == Or(Property(kzRow, toLowerCase[scenario]), Zero)

\* the deduction taken on the payable emissions
deductionOnPayable(w, kzRow, scenario) ==
    NMul(NMul(MathMin(w.certPrice, kzPrice(kzRow, scenario)), w.payableEmissions),
         kzRow.quotaShare)

\* Math.min(certPrice, kzPrice) * embeddedCO2 * quotaShare
deduction(w, kzRow, scenario) ==
    NMul(NMul(MathMin(w.certPrice, kzPrice(kzRow, scenario)), w.embeddedCO2),
         kzRow.quotaShare)

\* kzEtsDeduction: 0 unless eligible, the scenario is not NONE and the year
\* has a row in KZ_ETS_PRICE
kzEtsDeduction(w, c, ref) ==
    IF c.carbonCreditEligible /\ c.carbonCreditScenario # "NONE"
           /\ HasYear(ref.KZ_ETS_PRICE, w.year)
    THEN deduction(w, FindYear(ref.KZ_ETS_PRICE, w.year), c.carbonCreditScenario)
    ELSE Zero

withKzEtsDeduction(w, c, ref) == w @@ [kzEtsDeduction |-> kzEtsDeduction(w, c, ref)]

\* the net cost without the floor at 0
netCostUnfloored(grossCost, kzDeduction) == NSub(grossCost, kzDeduction)

\* Math.max(0, grossCost - kzEtsDeduction)
netCost(grossCost, kzDeduction) == MathMax(Zero, NSub(grossCost, kzDeduction))

withNetCost(w) == w @@ [netCost |-> netCost(w.grossCost, w.kzEtsDeduction)]

\* importedQty > 0 ? netCost / importedQty : 0
withCostPerTonne(w) ==
    w @@ [costPerTonne |-> IF IsPositive(w.importedQty)
                           THEN NDiv(w.netCost, w.importedQty) ELSE Zero]

\* alPrice > 0 ? (costPerTonne / alPrice) * 100 : 0
withCostPctOfPrice(w) ==
    w @@ [costPctOfPrice |-> IF IsPositive(w.alPrice)
                             THEN NMul(NDiv(w.costPerTonne, w.alPrice), Num(100))
                             ELSE Zero]

\* the unrounded values of a year
yearValues(c, ref, phaseIn) ==
    withCostPctOfPrice(withCostPerTonne(withNetCost(
        withKzEtsDeduction(
            withGrossCost(withPayableEmissions(withEmbeddedCO2(
                withIntensity(withYear(c, ref, phaseIn), c, ref)))),
            c, ref))))

\* the row returned for a year: the values rounded
projectionRow(w) ==
    [year |-> w.year,
     importQty |-> w.importedQty,
     markup |-> w.markup,
     intensity |-> RoundTo(w.intensity, 1000),
     embeddedCO2 |-> MathRound(w.embeddedCO2),
     payableShare |-> w.payableShare,
     payableEmissions |-> MathRound(w.payableEmissions),
     certPrice |-> w.certPrice,
     grossCost |-> MathRound(w.grossCost),
     kzEtsDeduction |-> MathRound(w.kzEtsDeduction),
     netCost |-> MathRound(w.netCost),
     costPerTonne |-> RoundTo(w.costPerTonne, 100),
     alPrice |-> w.alPrice,
     costPctOfPrice |-> RoundTo(w.costPctOfPrice, 100)]

\* CBAM_PHASE_IN.map((phaseIn, i) => ...)
projectionRows(c, ref) ==
    [i \in 1..Len(ref.CBAM_PHASE_IN) |->
        projectionRow(yearValues(c, ref, ref.CBAM_PHASE_IN[i]))]

EmbeddedCO2Of(r) == r.embeddedCO2
PayableEmissionsOf(r) == r.payableEmissions
GrossCostOf(r) == r.grossCost
KzEtsDeductionOf(r) == r.kzEtsDeduction
NetCostOf(r) == r.netCost

\* the totals with the net cost taken from the other totals
projectionTotalsDerived(rows) ==
    [totalEmbeddedCO2 |-> SumOver(rows, EmbeddedCO2Of),
     totalPayableEmissions |-> SumOver(rows, PayableEmissionsOf),
     totalGrossCost |-> SumOver(rows, GrossCostOf),
     totalKzEtsDeduction |-> SumOver(rows, KzEtsDeductionOf),
     totalNetCost |-> MathMax(Zero, NSub(SumOver(rows, GrossCostOf),
                                         SumOver(rows, KzEtsDeductionOf)))]

\* rows.reduce((s, r) => s + r.field, 0) for the five totals
projectionTotals(rows) ==
    [totalEmbeddedCO2 |-> SumOver(rows, EmbeddedCO2Of),
     totalPayableEmissions |-> SumOver(rows, PayableEmissionsOf),
     totalGrossCost |-> SumOver(rows, GrossCostOf),
     totalKzEtsDeduction |-> SumOver(rows, KzEtsDeductionOf),
     totalNetCost |-> SumOver(rows, NetCostOf)]

\* return { rows, totals, metadata }
projectionResult(rows, c, ref) ==
    [rows |-> rows,
     totals |-> projectionTotals(rows),
     metadata |-> [defaultEntry |-> getKzDefault(ref, c.cnCode),
                   effectiveScope |-> effectiveScope(c, ref),
                   goodCategory |-> c.goodCategory]]

projectionOf(c, ref) == projectionResult(projectionRows(c, ref), c, ref)

calculateCBAMProjection(config, ref) == projectionOf(destructure(config), ref)

(***************************************************************************)
(* Specification of the CBAM calculator: calculateCBAMProjection applied   *)
(* once to a configuration                                                 *)
(***************************************************************************)
\* CN code and goodCategory of the configured good; the last two pair a
\* CN code with another sector and name a CN code without a default value
Goods ==
    {<<"7601", "Aluminium">>, <<"2814 10 00", "Fertilisers">>,
     <<"2523 10 00", "Cement">>, <<"2814 10 00", "Aluminium">>,
     <<"0000 00 00", "Aluminium">>}

\* seeDirect and seeIndirect of the main product
ActualIntensities == {<<Rat(187, 100), Rat(1, 2)>>, <<Rat(18704, 10000), Zero>>}

ImportedQuantities == {Num(-7), Zero, Num(7), Num(110000)}

FullConfigs ==
    {[basis |-> b, scope |-> s, certPriceScenario |-> cert,
      alPriceScenario |-> "MID", carbonCreditEligible |-> eligible,
      carbonCreditScenario |-> credit, importedQty |-> qty,
      cnCode |-> good[1], goodCategory |-> good[2],
      seeDirect |-> see[1], seeIndirect |-> see[2]] :
        b \in {"ACTUAL", "DEFAULT"}, s \in {"", "DIRECT_ONLY", "TOTAL"},
        cert \in {"LOW", "MID", "BASE"}, eligible \in BOOLEAN,
        credit \in {"NONE", "LOW", "HIGH", "BASE"},
        qty \in ImportedQuantities, good \in Goods, see \in ActualIntensities}

\* configurations that leave every other key to its default
PartialConfigs ==
    {[importedQty |-> qty, seeDirect |-> see[1]] :
        qty \in ImportedQuantities, see \in ActualIntensities}

Configs == FullConfigs \cup PartialConfigs

InitCbam ==
    /\ pc = "ready"
    /\ cbamConfig \in Configs
    /\ referenceData = ReferenceData
    /\ projection = <<>>
    /\ EvalIdle /\ EmisIdle /\ PcfIdle /\ CompareIdle /\ StoreIdle

CalculateCBAMProjection ==
    /\ pc = "ready"
    /\ projection' = calculateCBAMProjection(cbamConfig, referenceData)
    /\ pc' = "done"
    /\ UNCHANGED <<cbamConfig, referenceData, evalVars, emisVars, pcfVars, compareVars, storeVars>>

NextCbam == CalculateCBAMProjection

SpecCbam == InitCbam /\ [][NextCbam]_vars

(***************************************************************************)
(* Properties of the CBAM calculator                                       *)
(***************************************************************************)
\* a key of the configuration, at its default when the configuration
\* leaves it out
InForce(key, default) == IF key \in DOMAIN cbamConfig THEN cbamConfig[key] ELSE default

Basis == InForce("basis", "ACTUAL")
Sector == InForce("goodCategory", "Aluminium")
CnCode == InForce("cnCode", "")

\* the scope of the configuration, or the scope rule of its sector
ScopeInForce ==
    IF InForce("scope", "") # "" THEN InForce("scope", "")
    ELSE IF Sector \in DOMAIN SCOPE_RULES THEN SCOPE_RULES[Sector] ELSE "TOTAL"

\* the default values listed for the CN code, in any sector
DefaultEntries ==
    UNION {{KZ_DEFAULT_VALUES[k].entries[i] : i \in 1..Len(KZ_DEFAULT_VALUES[k].entries)} :
              k \in 1..Len(KZ_DEFAULT_VALUES)}
DefaultsOfCn == {e \in DefaultEntries : e.cnCode = CnCode}

\* the regulatory default of an entry for the scope in force
RegulatoryDefault(e) ==
    IF ScopeInForce = "DIRECT_ONLY" THEN e.direct
    ELSE IF e.total # Null /\ e.total # Zero THEN e.total ELSE e.direct

\* the intensity of a row before it is rounded
ExpectedIntensity(row) ==
    IF Basis = "ACTUAL"
    THEN IF ScopeInForce = "DIRECT_ONLY" THEN InForce("seeDirect", Zero)
         ELSE NAdd(InForce("seeDirect", Zero), InForce("seeIndirect", Zero))
    ELSE IF DefaultsOfCn = {} THEN Zero
         ELSE NMul(RegulatoryDefault(CHOOSE e \in DefaultsOfCn : TRUE),
                   NAdd(One, row.markup))

\* the markup of the rows: 1% for fertilisers; for the other sectors
\* non-decreasing and 30% from 2028 onward
MarkupAsScheduled ==
    LET rows == projection.rows
    IN IF Sector = "Fertilisers"
       THEN \A i \in 1..Len(rows) : rows[i].markup = Rat(1, 100)
       ELSE /\ \A i \in 1..Len(rows) : \A j \in i..Len(rows) :
                   ~NLess(rows[j].markup, rows[i].markup)
            /\ \A i \in 1..Len(rows) :
                   rows[i].year >= 2028 => rows[i].markup = Rat(30, 100)

Half == Rat(1, 2)

\* r is x rounded to the nearest multiple of 1/scale, a half rounded up
Rounds(r, x, scale) ==
    /\ IsInteger(NMul(r, Num(scale)))
    /\ NLess(NSub(NMul(x, Num(scale)), Half), NMul(r, Num(scale)))
    /\ ~NLess(NAdd(NMul(x, Num(scale)), Half), NMul(r, Num(scale)))

\* C12 as stated: in every year row the intensity is seeDirect or
\* seeDirect + seeIndirect under ACTUAL, and the default of the CN code
\* for the scope times (1 + markup) under DEFAULT, 0 without a default
\* entry, the markup being as scheduled.
C12_IntensityUnrounded ==
    pc = "done" =>
        /\ MarkupAsScheduled
        /\ \A i \in 1..Len(projection.rows) :
               projection.rows[i].intensity = ExpectedIntensity(projection.rows[i])

\* C12 amended: the intensity of every year row is that value rounded to
\* three decimals, the default being looked up by the CN code alone and
\* the scope being the configured one or else the sector's scope rule.
C12_IntensityRounded ==
    pc = "done" =>
        /\ MarkupAsScheduled
        /\ \A i \in 1..Len(projection.rows) :
               Rounds(projection.rows[i].intensity,
                      ExpectedIntensity(projection.rows[i]), 1000)

\* a DEFAULT projection of a fertiliser with a direct-only default whose
\* marked-up value has a fourth decimal
C12_Witness ==
    /\ pc = "done"
    /\ Basis = "DEFAULT" /\ Sector = "Fertilisers" /\ DefaultsOfCn # {}
    /\ ScopeInForce = "DIRECT_ONLY"
    /\ projection.rows[1].intensity # ExpectedIntensity(projection.rows[1])

\* the lesser of two finite numbers
LesserOf(x, y) == IF NLess(y, x) THEN y ELSE x

\* the price of the carbon credit scenario in the year of a row, 0 for a
\* scenario the table has no column for
CreditPrice(row) ==
    LET kzRows == {r \in {KZ_ETS_PRICE[k] : k \in 1..Len(KZ_ETS_PRICE)} : r.year = row.year}
        key == toLowerCase[InForce("carbonCreditScenario", "HIGH")]
    IN IF kzRows = {} THEN Zero
       ELSE IF key \in DOMAIN (CHOOSE r \in kzRows : TRUE)
            THEN (CHOOSE r \in kzRows : TRUE)[key] ELSE Zero

QuotaShare(row) ==
    (CHOOSE r \in {KZ_ETS_PRICE[k] : k \in 1..Len(KZ_ETS_PRICE)} : r.year = row.year).quotaShare

CreditApplies ==
    InForce("carbonCreditEligible", TRUE) /\ InForce("carbonCreditScenario", "HIGH") # "NONE"

\* the embedded emissions of a row before they are rounded
ExpectedEmbedded(row) == NMul(InForce("importedQty", Zero), ExpectedIntensity(row))

\* min(certPrice, creditPrice) * embedded * quotaShare, or 0
DeductionOn(row, embedded) ==
    IF CreditApplies
    THEN NMul(NMul(LesserOf(row.certPrice, CreditPrice(row)), embedded), QuotaShare(row))
    ELSE Zero

GreaterOf(x, y) == IF NLess(x, y) THEN y ELSE x

\* the gross cost of a row before it is rounded
ExpectedGross(row) ==
    NMul(NMul(ExpectedEmbedded(row), row.payableShare), row.certPrice)

\* max(0, gross - deduction) before it is rounded
ExpectedNet(row) ==
    GreaterOf(Zero, NSub(ExpectedGross(row), DeductionOn(row, ExpectedEmbedded(row))))

\* C14 as stated: in every row netCost is not negative and equals
\* max(0, grossCost - deduction) of the grossCost and the deduction that
\* the same row reports.
C14_NetCostOfReportedFields ==
    pc = "done" =>
        \A i \in 1..Len(projection.rows) :
            /\ ~NLess(projection.rows[i].netCost, Zero)
            /\ projection.rows[i].netCost =
                   GreaterOf(Zero, NSub(projection.rows[i].grossCost,
                                        projection.rows[i].kzEtsDeduction))

\* C14 amended: in every row netCost is not negative and is
\* max(0, gross - deduction) of the unrounded gross cost and deduction,
\* rounded to the nearest integer; it is within 1 of max(0, grossCost -
\* deduction) of the rounded fields of the row.
C14_NetCostRounded ==
    pc = "done" =>
        \A i \in 1..Len(projection.rows) :
            LET row == projection.rows[i]
                reported == GreaterOf(Zero, NSub(row.grossCost, row.kzEtsDeduction))
            IN /\ ~NLess(row.netCost, Zero)
               /\ Rounds(row.netCost, ExpectedNet(row), 1)
               /\ ~NLess(One, NSub(row.netCost, reported))
               /\ ~NLess(One, NSub(reported, row.netCost))

\* a projection with a row whose netCost is not grossCost - deduction of
\* the row, and with a positive net cost
C14_Witness ==
    /\ pc = "done"
    /\ \E i \in 1..Len(projection.rows) :
           /\ NLess(Zero, projection.rows[i].netCost)
           /\ projection.rows[i].netCost #
                  NSub(projection.rows[i].grossCost, projection.rows[i].kzEtsDeduction)

\* a projection in which the floor at 0 acts: the gross cost is below the
\* deduction
NetCostFloored ==
    /\ pc = "done"
    /\ \E i \in 1..Len(projection.rows) :
           NLess(ExpectedGross(projection.rows[i]),
                 DeductionOn(projection.rows[i], ExpectedEmbedded(projection.rows[i])))

\* the configuration of the worked example: ACTUAL, DIRECT_ONLY,
\* seeDirect 1.87, 110000 t, certificate prices MID
ExampleConfig ==
    /\ Basis = "ACTUAL" /\ ScopeInForce = "DIRECT_ONLY"
    /\ InForce("seeDirect", Zero) = Rat(187, 100)
    /\ InForce("importedQty", Zero) = Num(110000)
    /\ InForce("certPriceScenario", "MID") = "MID"

\* C15 as stated: for the example the 2026 row has embeddedEmissions
\* 205700, payableEmissions 5142.5 and grossCost 478252.5.
C15_ExampleUnrounded ==
    (pc = "done" /\ ExampleConfig) =>
        /\ projection.rows[1].year = 2026
        /\ projection.rows[1].embeddedCO2 = Num(205700)
        /\ projection.rows[1].payableEmissions = Rat(51425, 10)
        /\ projection.rows[1].grossCost = Rat(4782525, 10)

\* C15 amended: for the example the 2026 row has embeddedCO2 205700,
\* payableEmissions 5143 and grossCost 478253, the values 5142.5 and
\* 478252.5 rounded to the nearest integer.
C15_ExampleRounded ==
    (pc = "done" /\ ExampleConfig) =>
        /\ projection.rows[1].year = 2026
        /\ projection.rows[1].embeddedCO2 = Num(205700)
        /\ projection.rows[1].payableEmissions = Num(5143)
        /\ projection.rows[1].grossCost = Num(478253)

\* the example has been projected
C15_Witness == pc = "done" /\ ExampleConfig /\ projection.rows[1].certPrice = Num(93)

(***************************************************************************)
(* The worked combustion example                                           *)
(***************************************************************************)
\* a fuel entry of 500 t natural gas with the default factors
ExampleFuel(f) == f = Fuel(f.id, "natural_gas", Num(500))

\* C16 as stated: for 500 t natural gas (NCV 48, EF_CO2 56100) the entry
\* returned has energyTJ 24, CO2 1346.4 t and CO2e 1346.4 t.
C16_ExampleCo2eIsCo2 ==
    Done =>
        \A i \in 1..Len(activity.fuels) :
            ExampleFuel(activity.fuels[i]) =>
                LET r == emissions.combustion.entries[i]
                IN /\ r.lineage.ncv = Num(48) /\ r.lineage.efCO2 = Num(56100)
                   /\ r.energyTJ = Num(24)
                   /\ r.co2 = Rat(13464, 10)
                   /\ r.co2e = Rat(13464, 10)

\* C16 amended: the entry returned has energyTJ 24 and CO2 1346.4 t, of
\* which CO2 contributes 1346.4 t to the CO2e; the CO2e returned also
\* holds 0.12 t CH4 and 0.0024 t N2O at their potentials and is 1350.612 t.
C16_ExampleCo2eOfAllGases ==
    Done =>
        \A i \in 1..Len(activity.fuels) :
            ExampleFuel(activity.fuels[i]) =>
                LET r == emissions.combustion.entries[i]
                IN /\ r.lineage.ncv = Num(48) /\ r.lineage.efCO2 = Num(56100)
                   /\ r.energyTJ = Num(24)
                   /\ r.co2 = Rat(13464, 10)
                   /\ r.ch4 = Rat(12, 100) /\ r.n2o = Rat(24, 10000)
                   /\ r.co2e = Rat(1350612, 1000)

\* the emissions of an activity data set with the example entry
C16_Witness ==
    /\ Done
    /\ \E i \in 1..Len(activity.fuels) :
           /\ ExampleFuel(activity.fuels[i])
           /\ emissions.combustion.entries[i].energyTJ = Num(24)

\* the sum of a field over the first n rows
RECURSIVE FieldSum(_, _, _)
FieldSum(rows, field, n) ==
    IF n = 0 THEN Zero ELSE NAdd(FieldSum(rows, field, n - 1), rows[n][field])

\* C17: the projection has exactly nine rows, for the years 2026 to 2034
\* in ascending order, and each of the five totals is the sum of its field
\* over the nine rows.
C17_NineRowsAndTotals ==
    pc = "done" =>
        /\ Len(projection.rows) = 9
        /\ \A i \in 1..9 : projection.rows[i].year = 2025 + i
        /\ projection.totals.totalEmbeddedCO2 = FieldSum(projection.rows, "embeddedCO2", 9)
        /\ projection.totals.totalPayableEmissions =
               FieldSum(projection.rows, "payableEmissions", 9)
        /\ projection.totals.totalGrossCost = FieldSum(projection.rows, "grossCost", 9)
        /\ projection.totals.totalKzEtsDeduction =
               FieldSum(projection.rows, "kzEtsDeduction", 9)
        /\ projection.totals.totalNetCost = FieldSum(projection.rows, "netCost", 9)

\* a projection with a deduction whose total net cost is not the total
\* gross cost less the total deduction
C17_Witness ==
    /\ pc = "done"
    /\ NLess(Zero, projection.totals.totalKzEtsDeduction)
    /\ projection.totals.totalNetCost #
           NSub(projection.totals.totalGrossCost, projection.totals.totalKzEtsDeduction)

\* the payable share the phase-in schedule gives for a year
ScheduledShare(year) ==
    (CHOOSE r \in {CBAM_PHASE_IN[k] : k \in 1..Len(CBAM_PHASE_IN)} : r.year = year).payableShare

\* the rows carry the schedule: the share of their year, non-decreasing
\* from a year to the next, 0.025 in 2026 and 1 in 2034
RowsCarrySchedule ==
    LET rows == projection.rows
    IN /\ \A i \in 1..Len(rows) : rows[i].payableShare = ScheduledShare(rows[i].year)
       /\ \A i \in 1..(Len(rows) - 1) :
              /\ rows[i + 1].year = rows[i].year + 1
              /\ ~NLess(rows[i + 1].payableShare, rows[i].payableShare)
       /\ \A i \in 1..Len(rows) :
              /\ rows[i].year = 2026 => rows[i].payableShare = Rat(25, 1000)
              /\ rows[i].year = 2034 => rows[i].payableShare = One
       /\ \E i \in 1..Len(rows) : rows[i].year = 2026
       /\ \E i \in 1..Len(rows) : rows[i].year = 2034

\* C20 as stated: the payable share is non-decreasing over 2026 to 2034,
\* 0.025 in 2026 and 1.0 in 2034, every row carries the share of its year,
\* and payableEmissions = embeddedEmissions * payableShare in every row.
C20_PayableOfReportedEmbedded ==
    pc = "done" =>
        /\ RowsCarrySchedule
        /\ \A i \in 1..Len(projection.rows) :
               projection.rows[i].payableEmissions =
                   NMul(projection.rows[i].embeddedCO2, projection.rows[i].payableShare)

\* C20 amended: the schedule and the share carried by the rows are as
\* stated, and payableEmissions of a row is the unrounded embedded
\* emissions importedQty * intensity times the payable share, rounded to
\* the nearest integer.
C20_PayableRounded ==
    pc = "done" =>
        /\ RowsCarrySchedule
        /\ \A i \in 1..Len(projection.rows) :
               Rounds(projection.rows[i].payableEmissions,
                      NMul(ExpectedEmbedded(projection.rows[i]),
                           projection.rows[i].payableShare), 1)

\* a projection of a positive quantity whose 2026 payable emissions are
\* not the product of the row's embedded emissions and share
C20_Witness ==
    /\ pc = "done"
    /\ NLess(Zero, projection.rows[1].payableEmissions)
    /\ projection.rows[1].payableEmissions #
           NMul(projection.rows[1].embeddedCO2, projection.rows[1].payableShare)

(***************************************************************************)
(* cbamCalculator.js: compareScenarios and compareCertPriceScenarios       *)
(***************************************************************************)
\* the spread with the base configuration written last
mergeConfigBaseLast(base, overrides) == base @@ overrides

\* { ...baseConfig, ...scenario.overrides }
mergeConfig(base, overrides) == overrides @@ base

\* the result of one scenario
scenarioResult(base, scenario, ref) ==
    [name |-> scenario.name,
     label |-> scenario.label,
     color |-> scenario.color,
     projection |-> calculateCBAMProjection(mergeConfig(base, scenario.overrides), ref)]

\* scenarios.map(scenario => ...)
compareScenarios(base, list, ref) ==
    [i \in 1..Len(list) |-> scenarioResult(base, list[i], ref)]

\* the certificate price scenarios with LOW and HIGH exchanged
CertPriceScenariosExchanged ==
    << [name |-> "low", label |-> "Low Carbon Price", color |-> "#22c55e",
        overrides |-> [certPriceScenario |-> "HIGH"]],
       [name |-> "mid", label |-> "Mid Carbon Price", color |-> "#f59e0b",
        overrides |-> [certPriceScenario |-> "MID"]],
       [name |-> "high", label |-> "High Carbon Price", color |-> "#ef4444",
        overrides |-> [certPriceScenario |-> "LOW"]] >>

\* the scenarios of compareCertPriceScenarios
CertPriceScenarios ==
    << [name |-> "low", label |-> "Low Carbon Price", color |-> "#22c55e",
        overrides |-> [certPriceScenario |-> "LOW"]],
       [name |-> "mid", label |-> "Mid Carbon Price", color |-> "#f59e0b",
        overrides |-> [certPriceScenario |-> "MID"]],
       [name |-> "high", label |-> "High Carbon Price", color |-> "#ef4444",
        overrides |-> [certPriceScenario |-> "HIGH"]] >>

compareCertPriceScenarios(base, ref) == compareScenarios(base, CertPriceScenarios, ref)

(***************************************************************************)
(* Specification of the scenario comparison: compareScenarios and          *)
(* compareCertPriceScenarios called, any number of times, on a base        *)
(* configuration and a list of scenarios                                   *)
(***************************************************************************)
MaxScenarios == 2

Scenario(name, overrides) ==
    [name |-> name, label |-> name, color |-> "#000000", overrides |-> overrides]

ScenarioEntries ==
    << Scenario("actual", [basis |-> "ACTUAL", scope |-> "TOTAL"]),
       Scenario("default", [basis |-> "DEFAULT", certPriceScenario |-> "HIGH"]),
       Scenario("noCredit", [carbonCreditEligible |-> FALSE]) >>

Reverse(list) == [i \in 1..Len(list) |-> list[Len(list) + 1 - i]]

\* the scenarios in the order of ScenarioEntries and in the opposite order
ScenarioLists ==
    SubLists(ScenarioEntries, MaxScenarios) \cup SubLists(Reverse(ScenarioEntries), MaxScenarios)

BaseConfigs ==
    {c \in FullConfigs : /\ c.scope = "" /\ c.certPriceScenario = "MID"
                         /\ c.carbonCreditScenario \in {"NONE", "HIGH"}
                         /\ NLess(Zero, c.importedQty) /\ c.seeIndirect # Zero}
        \cup {c \in PartialConfigs : c.importedQty # Zero}

InitCompare ==
    /\ pc = "ready"
    /\ baseConfig \in BaseConfigs
    /\ scenarios \in ScenarioLists
    /\ scenarioResults = <<>>
    /\ referenceData = ReferenceData
    /\ cbamConfig = <<>> /\ projection = <<>>
    /\ EvalIdle /\ EmisIdle /\ PcfIdle /\ StoreIdle

CompareScenarios ==
    /\ scenarioResults' = compareScenarios(baseConfig, scenarios, referenceData)
    /\ pc' = "compared"
    /\ UNCHANGED <<baseConfig, scenarios, cbamVars, evalVars, emisVars, pcfVars, storeVars>>

CompareCertPriceScenarios ==
    /\ scenarioResults' = compareCertPriceScenarios(baseConfig, referenceData)
    /\ pc' = "certPrices"
    /\ UNCHANGED <<baseConfig, scenarios, cbamVars, evalVars, emisVars, pcfVars, storeVars>>

NextCompare == CompareScenarios \/ CompareCertPriceScenarios

SpecCompare == InitCompare /\ [][NextCompare]_vars

(***************************************************************************)
(* Properties of the scenario comparison                                   *)
(***************************************************************************)
\* the result returned under a name
ResultNamed(name) ==
    scenarioResults[CHOOSE i \in 1..Len(scenarioResults) : scenarioResults[i].name = name]

\* x <= y for finite numbers
NLessEq(x, y) == ~NLess(y, x)

\* C18: the three projections of compareCertPriceScenarios satisfy
\* netCost(LOW) <= netCost(MID) <= netCost(HIGH) in every year 2026 to
\* 2034, for every base configuration with finite numbers.
C18_NetCostMonotoneInCertPrice ==
    pc = "certPrices" =>
        /\ {scenarioResults[i].name : i \in 1..Len(scenarioResults)} = {"low", "mid", "high"}
        /\ \A i \in 1..9 :
               /\ ResultNamed("low").projection.rows[i].year = 2025 + i
               /\ ResultNamed("mid").projection.rows[i].year = 2025 + i
               /\ ResultNamed("high").projection.rows[i].year = 2025 + i
               /\ NLessEq(ResultNamed("low").projection.rows[i].netCost,
                          ResultNamed("mid").projection.rows[i].netCost)
               /\ NLessEq(ResultNamed("mid").projection.rows[i].netCost,
                          ResultNamed("high").projection.rows[i].netCost)

\* certificate price scenarios compared for a base configuration with a
\* deduction, the net cost rising strictly with the price in 2026
C18_Witness ==
    /\ pc = "certPrices"
    /\ NLess(Zero, ResultNamed("mid").projection.rows[1].kzEtsDeduction)
    /\ NLess(ResultNamed("low").projection.rows[1].netCost,
             ResultNamed("mid").projection.rows[1].netCost)
    /\ NLess(ResultNamed("mid").projection.rows[1].netCost,
             ResultNamed("high").projection.rows[1].netCost)

\* the shallow merge of a base configuration and the overrides of a
\* scenario: the keys of both, an override taking the place of the base
ShallowMerge(base, overrides) ==
    [k \in DOMAIN base \cup DOMAIN overrides |->
        IF k \in DOMAIN overrides THEN overrides[k] ELSE base[k]]

\* the result of a scenario run alone
RunAlone(scenario) ==
    [name |-> scenario.name, label |-> scenario.label, color |-> scenario.color,
     projection |-> calculateCBAMProjection(ShallowMerge(baseConfig, scenario.overrides),
                                            ReferenceData)]

\* one result per scenario, in input order, each as the scenario run alone
ResultsAsRunAlone ==
    /\ Len(scenarioResults) = Len(scenarios)
    /\ \A i \in 1..Len(scenarios) : scenarioResults[i] = RunAlone(scenarios[i])

ScenarioKeys == {"LOW", "MID", "HIGH", "BASE", "constructor", "CONSTRUCTOR"}

ScenarioKeyConfigs ==
    {[basis |-> b, scope |-> "", certPriceScenario |-> cert,
      alPriceScenario |-> "MID", carbonCreditEligible |-> eligible,
      carbonCreditScenario |-> "HIGH", importedQty |-> qty,
      cnCode |-> good[1], goodCategory |-> good[2],
      seeDirect |-> Rat(187, 100), seeIndirect |-> Rat(1, 2)] :
        b \in {"ACTUAL", "DEFAULT"}, cert \in ScenarioKeys, eligible \in BOOLEAN,
        qty \in ImportedQuantities, good \in Goods}

InitScenarioKeys ==
    /\ pc = "ready"
    /\ cbamConfig \in ScenarioKeyConfigs
    /\ referenceData = ReferenceData
    /\ projection = <<>>
    /\ EvalIdle /\ EmisIdle /\ PcfIdle /\ CompareIdle /\ StoreIdle

SpecScenarioKeys == InitScenarioKeys /\ [][NextCbam]_vars

\* the numeric fields of a projection row
RowFields ==
    {"importQty", "markup", "intensity", "embeddedCO2", "payableShare",
     "payableEmissions", "certPrice", "grossCost", "kzEtsDeduction", "netCost",
     "costPerTonne", "alPrice", "costPctOfPrice"}

\* a number that is neither NaN nor infinite nor an object
FiniteNumber(x) == Len(x) = 2 /\ x[2] # 0

\* the scenario names the certificate price table has a column for
ListedScenarios == {"LOW", "MID", "HIGH", "low", "mid", "high", "Mid"}

\* the MID certificate price of a year
MidCertPrice(year) ==
    LET listed == {r \in {CBAM_CERT_PRICE[i] : i \in 1..Len(CBAM_CERT_PRICE)} :
                       r.year = year}
    IN IF listed = {} THEN Zero ELSE (CHOOSE r \in listed : TRUE).mid

CostFields == {"grossCost", "kzEtsDeduction", "netCost", "costPerTonne", "costPctOfPrice"}

\* C21: calculateCBAMProjection always returns nine rows whose numeric
\* fields are finite; under basis DEFAULT with a CN code without a default
\* entry the intensity and every cost field are 0 in every year; a
\* certificate-price scenario key the price table does not list gives the
\* MID price of the year; importedQty 0 gives costPerTonne 0 and
\* costPctOfPrice 0.
C21_ProjectionAlwaysWellFormed ==
    Done /\ cbamConfig # <<>> =>
        /\ Len(projection.rows) = 9
        /\ \A i \in 1..Len(projection.rows) :
              LET row == projection.rows[i] IN
              /\ RowFields \subseteq DOMAIN row
              /\ \A f \in RowFields : FiniteNumber(row[f])
              /\ (Basis = "DEFAULT" /\ DefaultsOfCn = {}) =>
                    /\ row.intensity = Zero
                    /\ \A f \in CostFields : row[f] = Zero
              /\ InForce("certPriceScenario", "MID") \notin ListedScenarios =>
                    row.certPrice = MidCertPrice(row.year)
              /\ InForce("importedQty", Zero) = Zero =>
                    row.costPerTonne = Zero /\ row.costPctOfPrice = Zero


(***************************************************************************)
(* Specification of the emission engine for invalid and overridden inputs: *)
(* calculateTotalEmissions applied once to one fuel entry, one electricity *)
(* entry and the anode parameters of one period                            *)
(***************************************************************************)
\* quantities as entered: positive, negative, NaN, text, absent
InputQuantities == {Num(100), Num(-100), NaN, TextValue, Null}

\* snake_case and camelCase override values of a factor
SnakeOverrides == {Null, Zero, Num(40)}
CamelOverrides == {Null, Zero, Num(20), TextValue}

InputFuels ==
    {[Fuel("f1", type, quantity) EXCEPT !.custom_ncv = ncv[1], !.customNcv = ncv[2],
                                        !.custom_ef_ch4 = ch4[1], !.customEfCh4 = ch4[2]] :
        type \in {"natural_gas", "unknown"}, quantity \in InputQuantities,
        ncv \in SnakeOverrides \X CamelOverrides,
        ch4 \in {<<Null, Null>>, <<Num(2), Num(3)>>, <<Null, Num(-3)>>}}

InputElectricity == {<<>>, <<Electricity("e1", Num(-10), Rat(1, 2))>>,
                     <<Electricity("e1", TextValue, NaN)>>}

\* anode parameters: as measured, a negative production, more sulfur and
\* ash than carbon
InputEvents ==
    {<<>>,
     <<Event("2024-01", "p1", "metal_production", Num(-100)),
       Event("2024-01", "p1", "net_anode_consumption", Num(400)),
       Event("2024-01", "p1", "anode_carbon_fraction", Rat(95, 100))>>,
     <<Event("2024-01", "p1", "metal_production", Num(100)),
       Event("2024-01", "p1", "net_anode_consumption", Num(400)),
       Event("2024-01", "p1", "anode_carbon_fraction", Rat(1, 100)),
       Event("2024-01", "p1", "anode_sulfur_fraction", Rat(2, 100))>>}

InputActivities ==
    {[fuels |-> <<f>>, electricity |-> e, processEvents |-> ev, emissionBlocks |-> <<>>] :
        f \in InputFuels, e \in InputElectricity, ev \in InputEvents}

InitInputs ==
    /\ pc = "ready"
    /\ activity \in InputActivities
    /\ emissions = <<>>
    /\ EvalIdle /\ PcfIdle /\ CbamIdle /\ CompareIdle /\ StoreIdle

SpecInputs == InitInputs /\ [][NextEmis]_vars

\* a number that is finite and not below 0
FiniteNonNegative(x) == Len(x) = 2 /\ x[2] # 0 /\ x[1] >= 0

\* C22: whatever the quantities, energy, factors, overrides and process
\* parameters of the activity data are (NaN, text and negative numbers
\* included), every per-gas mass and every CO2e total that
\* calculateTotalEmissions returns is finite and not negative.
C22_MassesFiniteAndNonNegative ==
    Done =>
        /\ \A i \in 1..Len(emissions.combustion.entries) :
              LET r == emissions.combustion.entries[i]
              IN \A f \in {"co2", "ch4", "n2o", "co2e"} : FiniteNonNegative(r[f])
        /\ \A i \in 1..Len(emissions.electricity.entries) :
              FiniteNonNegative(emissions.electricity.entries[i].co2e)
        /\ \A i \in 1..Len(emissions.anode.entries) :
              FiniteNonNegative(emissions.anode.entries[i].co2)
        /\ \A f \in {"directCO2e", "indirectCO2e", "totalCO2e"} :
              FiniteNonNegative(emissions.summary[f])


\* an override value the entry carries: a value other than the absent
\* ones (undefined, 0 and NaN, as the entries of the application hold 0 for a
\* factor that is not overridden)
Entered(v) == v \notin {Null, Zero, NaN}

\* the override in force of a factor: the snake_case one before the
\* camelCase one
OverrideInForce(snake, camel) == IF Entered(snake) THEN snake ELSE camel

Overridden(snake, camel) == Entered(snake) \/ Entered(camel)

\* the default factors of the fuel type of an entry
FuelDefaults(entry) ==
    LET type == IF entry.fuel_type_id # "" THEN entry.fuel_type_id ELSE entry.fuelTypeId
    IN IF type \in DOMAIN DEFAULT_EMISSION_FACTORS THEN DEFAULT_EMISSION_FACTORS[type]
       ELSE DEFAULT_EMISSION_FACTORS.custom

\* the factor the calculation is to use
FactorInForce(snake, camel, default) ==
    IF Overridden(snake, camel) THEN OverrideInForce(snake, camel) ELSE default

\* the mass of a gas from the energy and the factor in force
MassOf(energyTJ, ef) == NDiv(NMul(energyTJ, ef), Num(1000))

C24_LineageReproducesAndNamesSources ==
    Done =>
        \A i \in 1..Len(activity.fuels) :
            LET e == activity.fuels[i]
                r == emissions.combustion.entries[i]
                l == r.lineage
                co2 == MassOf(l.energyTJ, l.efCO2)
                ch4 == MassOf(l.energyTJ, l.efCH4)
                n2o == MassOf(l.energyTJ, l.efN2O)
            IN /\ l.energyGJ = NMul(l.quantity, l.ncv)
               /\ l.energyTJ = NDiv(l.energyGJ, Num(1000))
               /\ r.energyTJ = l.energyTJ
               /\ r.co2 = co2 /\ r.ch4 = ch4 /\ r.n2o = n2o
               /\ r.co2e = NAdd(NAdd(co2, NMul(ch4, l.gwpCH4)), NMul(n2o, l.gwpN2O))
               /\ l.ncvSource = IF Overridden(e.custom_ncv, e.customNcv)
                                THEN "user_override" ELSE "default"
               /\ (l.efCO2Source = "user_override")
                      <=> Overridden(e.custom_ef_co2, e.customEfCo2)
               /\ (l.efCH4Source = "user_override")
                      <=> Overridden(e.custom_ef_ch4, e.customEfCh4)
               /\ (l.efN2OSource = "user_override")
                      <=> Overridden(e.custom_ef_n2o, e.customEfN2o)


(***************************************************************************)
(* formulaEvaluator.js: validateFormula and extractVariables               *)
(***************************************************************************)
\* tokens.filter(t => t.type === TOKEN.IDENT).map(t => t.value)
identValues(tokens) ==
    LET idents == SelectSeq(tokens, LAMBDA t : t.type = "IDENT")
    IN [i \in 1..Len(idents) |-> idents[i].value]


\* [...new Set(list)]: each value once, in the order of first appearance
unique(list) ==
    LET first == {i \in 1..Len(list) : \A j \in 1..(i - 1) : list[j] # list[i]}
        nth(k) == CHOOSE i \in first : Cardinality({j \in first : j <= i}) = k
    IN [k \in 1..Cardinality(first) |-> list[nth(k)]]

\* usedVars.filter(v => !knownSet.has(v)), de-duplicated
unknownVarsOf(tokens, knownKeys) ==
    unique(SelectSeq(identValues(tokens), LAMBDA v : v \notin knownKeys))

\* knownKeys.forEach(k => { dummyVars[k] = 1; })
dummyVars(knownKeys) == [k \in knownKeys |-> One]

Validation(valid, error, unknownVars) ==
    [valid |-> valid, error |-> error, unknownVars |-> unknownVars]

\* the end of validateFormula: the parse with dummy values
validateParse(r) ==
    IF r.error # Null THEN Validation(FALSE, r.error, <<>>)
    ELSE Validation(TRUE, Null, <<>>)

\* validateFormula after a successful tokenize
validateTokens(tokens, knownKeys, unknownVars) ==
    IF Len(unknownVars) > 0
    THEN Validation(FALSE, <<"Unknown variable(s)", unknownVars>>, unknownVars)
    ELSE validateParse(parse(tokens, dummyVars(knownKeys)))

\* validateFormula after tokenize, t being what tokenize returned
validateTokenized(t, knownKeys) ==
    IF t.error # Null THEN Validation(FALSE, t.error, <<>>)
    ELSE validateTokens(t.tokens, knownKeys, unknownVarsOf(t.tokens, knownKeys))

\* validateFormula(formula, knownKeys), knownKeys as the set of its names
validateFormula(f, knownKeys) ==
    IF IsBlank(f) THEN Validation(TRUE, Null, <<>>)
    ELSE validateTokenized(tokenize(f), knownKeys)

extractTokenized(t) == IF t.tokens = Null THEN <<>> ELSE unique(identValues(t.tokens))

\* extractVariables(formula)
extractVariables(f) == IF f = <<>> THEN <<>> ELSE extractTokenized(tokenize(f))

(***************************************************************************)
(* Specification of formula validation: evaluate, validateFormula and      *)
(* extractVariables applied in turn to a formula, the known keys being the *)
(* keys of the variable map                                                *)
(***************************************************************************)
ValidateFormula ==
    /\ pc = "done"
    /\ validation' = validateFormula(formula, DOMAIN variables)
    /\ pc' = "validated"
    /\ UNCHANGED <<formula, variables, result, extracted, emisVars, pcfVars, cbamVars, compareVars, storeVars>>

ExtractVariables ==
    /\ pc = "validated"
    /\ extracted' = extractVariables(formula)
    /\ pc' = "extracted"
    /\ UNCHANGED <<formula, variables, result, validation, emisVars, pcfVars, cbamVars, compareVars, storeVars>>

NextValidate == Evaluate \/ ValidateFormula \/ ExtractVariables

SpecValidate == InitEval /\ [][NextValidate]_vars

\* evaluate reported a tokenizer, syntax or unknown-variable error
EvaluateRejects == result.error # Null /\ result.error # NotFinite

\* C25: validateFormula(formula, knownKeys) reports valid exactly when
\* evaluate on the same formula, with a variable map whose keys are
\* knownKeys, returns no tokenizer, syntax or unknown-variable error; its
\* unknownVars holds each identifier of the formula that is not in
\* knownKeys once, in the order of first appearance: the list of
\* extractVariables(formula) restricted to the unknown identifiers.
C25_ValidateAgreesWithEvaluate ==
    pc = "extracted" =>
        /\ validation.valid <=> ~EvaluateRejects
        /\ validation.unknownVars
              = SelectSeq(extracted, LAMBDA v : v \notin DOMAIN variables)
        /\ \A i, j \in 1..Len(validation.unknownVars) :
              validation.unknownVars[i] = validation.unknownVars[j] => i = j


(***************************************************************************)
(* dal.js over database.js and the schema: a table is the set of its rows, *)
(* audit_log the sequence of its rows in the order of their ids.  A DAL    *)
(* function takes the database d and returns the database after it.        *)
(***************************************************************************)
VersionedTables ==
    {"fuel_entries", "electricity_entries", "process_events", "production_output"}
KeyedTables == {"installations", "boundaries", "processes", "emission_blocks", "products"}
SettingsTables == {"cbam_settings", "allocation_settings"}

\* the database after the schema has run: every table empty
EmptyDatabase ==
    [t \in VersionedTables \cup KeyedTables \cup SettingsTables |-> {}]
        @@ [audit_log |-> <<>>]

\* execute('INSERT INTO audit_log ...')
logAudit(d, entityType, entityId, action) ==
    [d EXCEPT !.audit_log =
        Append(@, [entity_type |-> entityType, entity_id |-> entityId, action |-> action])]

\* SELECT ... WHERE stable_id = ? ORDER BY version_number DESC LIMIT 1
currentVersion(d, table, stableId) ==
    {r \in d[table] : /\ r.stable_id = stableId
                      /\ \A o \in d[table] :
                            o.stable_id = stableId => o.version_number <= r.version_number}

\* the new version without the reference to the version it supersedes
insertVersionUnlinked(d, table, stableId) ==
    LET current == currentVersion(d, table, stableId)
        newVersionNum == IF current # {}
                         THEN (CHOOSE r \in current : TRUE).version_number + 1 ELSE 1
    IN [versionId |-> <<stableId, newVersionNum>>,
        versionNumber |-> newVersionNum,
        prevVersionId |-> Null]

\* insertVersion(table, entityType, stableId, data); the version id
\* `${stableId}_v${n}` is the pair of its parts
insertVersion(d, table, stableId) ==
    LET current == currentVersion(d, table, stableId)
        newVersionNum == IF current # {}
                         THEN (CHOOSE r \in current : TRUE).version_number + 1 ELSE 1
    IN [versionId |-> <<stableId, newVersionNum>>,
        versionNumber |-> newVersionNum,
        prevVersionId |-> IF current # {} THEN (CHOOSE r \in current : TRUE).version_id
                                           ELSE Null]

\* the columns every versioned table has
versionColumns(v, stableId, data) ==
    [version_id |-> v.versionId, stable_id |-> stableId,
     version_number |-> v.versionNumber, period |-> data.period,
     supersedes_version_id |-> v.prevVersionId]

\* a row of the table has the value in its primary key column, so that an
\* INSERT of it raises
keyTaken(d, table, key, value) == \E r \in d[table] : r[key] = value

\* the INSERT and the logAudit of a save of a versioned record
saveVersion(d, table, entityType, stableId, v, columns) ==
    IF keyTaken(d, table, "version_id", v.versionId) THEN d
    ELSE logAudit([d EXCEPT ![table] = @ \cup {columns}], entityType, stableId,
                  IF v.versionNumber = 1 THEN "CREATE" ELSE "UPDATE")

\* saveFuelEntry(data)
saveFuelEntry(d, data) ==
    LET v == insertVersion(d, "fuel_entries", data.id)
    IN saveVersion(d, "fuel_entries", "fuel_entry", data.id, v,
                   versionColumns(v, data.id, data) @@ [quantity |-> Or(data.quantity, Zero)])

\* saveElectricityEntry(data)
saveElectricityEntry(d, data) ==
    LET v == insertVersion(d, "electricity_entries", data.id)
    IN saveVersion(d, "electricity_entries", "electricity_entry", data.id, v,
                   versionColumns(v, data.id, data) @@ [mwh |-> Or(data.mwh, Zero)])

\* saveProcessEvent(data)
saveProcessEvent(d, data) ==
    LET v == insertVersion(d, "process_events", data.id)
    IN saveVersion(d, "process_events", "process_event", data.id, v,
                   versionColumns(v, data.id, data) @@ [value |-> Or(data.value, Zero)])

\* saveProductionOutput(data)
saveProductionOutput(d, data) ==
    LET v == insertVersion(d, "production_output", data.id)
    IN saveVersion(d, "production_output", "production_output", data.id, v,
                   versionColumns(v, data.id, data) @@ [quantity |-> Or(data.quantity, Zero)])

\* what a save returns: { stableId, versionId }
saved(d, table, stableId) ==
    [stableId |-> stableId, versionId |-> insertVersion(d, table, stableId).versionId]

\* DELETE FROM table WHERE stable_id = ?, then logAudit: deleteFuelEntry,
\* deleteElectricityEntry, deleteProcessEvent
deleteVersions(d, table, entityType, stableId) ==
    logAudit([d EXCEPT ![table] = {r \in @ : r.stable_id # stableId}],
             entityType, stableId, "DELETE")

\* getLatestVersions(table, periodFilter): the rows joined to the greatest
\* version number of their stable id among the rows of the period
getLatestVersions(d, table, periodFilter) ==
    LET inPeriod == {r \in d[table] : periodFilter # "" => r.period = periodFilter}
        latest == {<<r.stable_id, r.version_number>> : r \in
                      {r \in inPeriod : \A o \in inPeriod :
                          o.stable_id = r.stable_id => o.version_number <= r.version_number}}
    IN {t \in d[table] : <<t.stable_id, t.version_number>> \in latest}

\* getFuelEntries(period), getElectricityEntries(period),
\* getProcessEvents(period), getProductionOutput(period): without a period
\* the latest version of every stable id
getEntries(d, table, period) ==
    IF period # "" THEN getLatestVersions(d, table, period)
    ELSE getLatestVersions(d, table, "")


(***************************************************************************)
(* Specification of the versioned records: saves, deletes and reads of the *)
(* four versioned tables in any order.  fetched is what the last call      *)
(* returned.                                                               *)
(***************************************************************************)
\* the audit log is followed until it holds MaxAudit rows
MaxAudit == 3

Periods == {"2024-01", "2024-02"}

FuelData == {[id |-> i, period |-> p, quantity |-> Num(500)] : i \in {"f1", "f2"}, p \in Periods}
ElectricityData == {[id |-> "e1", period |-> "2024-02", mwh |-> Num(1200)]}
ProcessEventData == {[id |-> "pe1", period |-> "2024-01", value |-> Null]}
ProductionData == {[id |-> "po1", period |-> "2024-01", quantity |-> Num(100)]}

StableIds == {"f1", "f2", "e1", "pe1", "po1"}

\* what a read returned
Read(table, period, rows) == [table |-> table, period |-> period, rows |-> rows]

AuditOpen == Len(db.audit_log) < MaxAudit

othersIdle == <<pc, evalVars, emisVars, pcfVars, cbamVars, compareVars, appState>>

InitVersions ==
    /\ pc = "ready"
    /\ db = EmptyDatabase
    /\ fetched = <<>>
    /\ appState = <<>>
    /\ EvalIdle /\ EmisIdle /\ PcfIdle /\ CbamIdle /\ CompareIdle

SaveFuelEntry ==
    \E data \in FuelData :
        /\ AuditOpen
        /\ db' = saveFuelEntry(db, data)
        /\ fetched' = saved(db, "fuel_entries", data.id)
        /\ UNCHANGED othersIdle

DeleteFuelEntry ==
    \E stableId \in {"f1", "f2"} :
        /\ AuditOpen
        /\ db' = deleteVersions(db, "fuel_entries", "fuel_entry", stableId)
        /\ fetched' = Null
        /\ UNCHANGED othersIdle

SaveElectricityEntry ==
    \E data \in ElectricityData :
        /\ AuditOpen
        /\ db' = saveElectricityEntry(db, data)
        /\ fetched' = saved(db, "electricity_entries", data.id)
        /\ UNCHANGED othersIdle

DeleteElectricityEntry ==
    /\ AuditOpen
    /\ db' = deleteVersions(db, "electricity_entries", "electricity_entry", "e1")
    /\ fetched' = Null
    /\ UNCHANGED othersIdle

SaveProcessEvent ==
    \E data \in ProcessEventData :
        /\ AuditOpen
        /\ db' = saveProcessEvent(db, data)
        /\ fetched' = saved(db, "process_events", data.id)
        /\ UNCHANGED othersIdle

DeleteProcessEvent ==
    /\ AuditOpen
    /\ db' = deleteVersions(db, "process_events", "process_event", "pe1")
    /\ fetched' = Null
    /\ UNCHANGED othersIdle

SaveProductionOutput ==
    \E data \in ProductionData :
        /\ AuditOpen
        /\ db' = saveProductionOutput(db, data)
        /\ fetched' = saved(db, "production_output", data.id)
        /\ UNCHANGED othersIdle

\* getFuelEntries(period), getElectricityEntries(period),
\* getProcessEvents(period) or getProductionOutput(period)
GetEntries ==
    \E table \in VersionedTables, period \in Periods \cup {""} :
        /\ fetched' = Read(table, period, getEntries(db, table, period))
        /\ UNCHANGED <<db, othersIdle>>

NextVersions ==
    \/ SaveFuelEntry \/ DeleteFuelEntry
    \/ SaveElectricityEntry \/ DeleteElectricityEntry
    \/ SaveProcessEvent \/ DeleteProcessEvent
    \/ SaveProductionOutput
    \/ GetEntries

SpecVersions == InitVersions /\ [][NextVersions]_vars

(***************************************************************************)
(* Properties of the versioned records                                     *)
(***************************************************************************)
\* the rows stored for a stable id
Versions(table, stableId) == {r \in db[table] : r.stable_id = stableId}

\* the latest version stored for a stable id
IsLatest(table, r) ==
    \A o \in Versions(table, r.stable_id) : o.version_number <= r.version_number

IsRead == fetched # Null /\ "rows" \in DOMAIN fetched

\* C26: a period-filtered read of a versioned table returns for each stable
\* id at most one row, which is the latest version stored for it, and only
\* when that version belongs to the requested period; a superseded version
\* is never returned.
C26_PeriodReadReturnsLatest ==
    (IsRead /\ fetched.period # "") =>
        /\ \A r \in fetched.rows :
              /\ r \in db[fetched.table]
              /\ IsLatest(fetched.table, r)
              /\ r.period = fetched.period
        /\ \A r, o \in fetched.rows : r.stable_id = o.stable_id => r = o


\* the version of a stable id with the number k
VersionNumbered(table, stableId, k) ==
    CHOOSE r \in Versions(table, stableId) : r.version_number = k

\* the versions of every stable id are numbered 1..n, carry distinct ids
\* and each refers to the one before it
VersionsContiguous ==
    \A table \in VersionedTables, stableId \in StableIds :
        LET stored == Versions(table, stableId)
            n == Cardinality(stored)
        IN /\ {r.version_number : r \in stored} = 1..n
           /\ Cardinality({r.version_id : r \in stored}) = n
           /\ \A r \in stored :
                 r.supersedes_version_id =
                     IF r.version_number = 1 THEN Null
                     ELSE VersionNumbered(table, stableId, r.version_number - 1).version_id

\* the table of the records of an entity type
TableOf ==
    [fuel_entry |-> "fuel_entries", electricity_entry |-> "electricity_entries",
     process_event |-> "process_events", production_output |-> "production_output"]

LastAudit(d) == d.audit_log[Len(d.audit_log)]
Audited(d, e) == Len(e.audit_log) = Len(d.audit_log) + 1

\* a step that wrote an audit row for a versioned record added the next
\* version of the stable id, audited as CREATE for version 1 and UPDATE
\* otherwise, or deleted every version of it
VersionStep(d, e) ==
    (Audited(d, e) /\ LastAudit(e).entity_type \in DOMAIN TableOf) =>
        LET audit == LastAudit(e)
            table == TableOf[audit.entity_type]
            before == {r \in d[table] : r.stable_id = audit.entity_id}
            after == {r \in e[table] : r.stable_id = audit.entity_id}
            n == Cardinality(before)
        IN /\ \A r \in d[table] \cup e[table] :
                 r.stable_id # audit.entity_id => (r \in d[table] <=> r \in e[table])
           /\ IF audit.action = "DELETE" THEN after = {}
              ELSE /\ before \subseteq after
                   /\ Cardinality(after) = n + 1
                   /\ \A r \in after \ before :
                         /\ r.version_number = n + 1
                         /\ r.supersedes_version_id =
                               IF n = 0 THEN Null
                               ELSE (CHOOSE o \in before : o.version_number = n).version_id
                   /\ audit.action = IF n = 0 THEN "CREATE" ELSE "UPDATE"

\* C29: for every versioned table and stable id, after any sequence of
\* saves and deletes, the stored versions are numbered contiguously 1..n with
\* pairwise distinct version ids; each save adds version n+1 (version 1 when
\* none is stored) whose supersedes reference is the id of the previous
\* latest version (null for the first); the audit action written is CREATE
\* exactly when the new version number is 1 and UPDATE otherwise; a delete
\* removes all versions of the stable id.
C29_VersionsNumberedAndLinked ==
    /\ [](db # <<>> => VersionsContiguous)
    /\ [][db # <<>> => VersionStep(db, db')]_vars

\* a record saved twice and then deleted, and a record saved three times
C29_Witness ==
    /\ db # <<>>
    /\ \/ /\ [i \in 1..Len(db.audit_log) |-> db.audit_log[i].action]
                = <<"CREATE", "UPDATE", "DELETE">>
          /\ \A i \in 1..Len(db.audit_log) : db.audit_log[i].entity_id = "f1"
          /\ db.fuel_entries = {}
       \/ /\ Cardinality(Versions("production_output", "po1")) = 3
          /\ LastAudit(db).action = "UPDATE"


(***************************************************************************)
(* dal.js: the records that are not versioned, and the settings            *)
(***************************************************************************)
EntityTypeOf ==
    [installations |-> "installation", boundaries |-> "boundary",
     processes |-> "process", products |-> "product",
     emission_blocks |-> "emission_block"]

\* UPDATE table SET ... WHERE id = ?
updateRow(d, table, data) ==
    [d EXCEPT ![table] = {IF r.id = data.id THEN data ELSE r : r \in @}]

\* saveInstallation, saveBoundary, saveProcess, saveProduct: UPDATE and
\* audit UPDATE when the id is stored, INSERT and audit CREATE otherwise
saveRecord(d, table, data) ==
    IF keyTaken(d, table, "id", data.id)
    THEN logAudit(updateRow(d, table, data), EntityTypeOf[table], data.id, "UPDATE")
    ELSE logAudit([d EXCEPT ![table] = @ \cup {data}], EntityTypeOf[table], data.id, "CREATE")

\* deleteBoundary, deleteProcess, deleteProduct, deleteEmissionBlock
deleteRecord(d, table, id) ==
    logAudit([d EXCEPT ![table] = {r \in @ : r.id # id}], EntityTypeOf[table], id, "DELETE")

\* saveEmissionBlock(data): INSERT, which raises when the id is stored
saveEmissionBlock(d, data) ==
    IF keyTaken(d, "emission_blocks", "id", data.id) THEN d
    ELSE logAudit([d EXCEPT !.emission_blocks = @ \cup {data}],
                  "emission_block", data.id, "CREATE")

\* updateEmissionBlock(id, data)
updateEmissionBlock(d, id, data) ==
    logAudit(updateRow(d, "emission_blocks", [data EXCEPT !.id = id]),
             "emission_block", id, "UPDATE")

\* saveCbamSettings(data): UPDATE or INSERT of the row 'default', no audit
saveCbamSettings(d, data) ==
    [d EXCEPT !.cbam_settings = {[id |-> "default"] @@ data}]

\* saveAllocationSettings(data): INSERT OR REPLACE of the row 'default', no
\* audit
saveAllocationSettings(d, data) ==
    [d EXCEPT !.allocation_settings =
        {[id |-> "default", method |-> IF data.method # "" THEN data.method ELSE "mass",
          treat_residue_as_waste |-> IF data.treatResidueAsWaste THEN 1 ELSE 0]}]

(***************************************************************************)
(* Specification of the audit trail: the writing functions of the data     *)
(* access layer in any order                                               *)
(***************************************************************************)
Named(id, name) == [id |-> id, name |-> name]

RecordData ==
    {<<"installations", Named("default", "Smelter")>>,
     <<"boundaries", Named("b1", "Potline")>>, <<"boundaries", Named("b1", "Casthouse")>>,
     <<"processes", Named("P01", "Electrolysis")>>,
     <<"products", Named("pr1", "Ingot")>>}

BlockData == {Named("eb1", "Anode"), Named("eb1", "PFC")}

InitAudit ==
    /\ pc = "ready"
    /\ db = EmptyDatabase
    /\ fetched = <<>>
    /\ appState = <<>>
    /\ EvalIdle /\ EmisIdle /\ PcfIdle /\ CbamIdle /\ CompareIdle

SaveRecord ==
    \E record \in RecordData :
        /\ AuditOpen
        /\ db' = saveRecord(db, record[1], record[2])
        /\ fetched' = record[2].id
        /\ UNCHANGED othersIdle

DeleteRecord ==
    \E record \in RecordData \cup {<<"emission_blocks", Named("eb1", "")>>} :
        /\ AuditOpen
        /\ record[1] # "installations"
        /\ db' = deleteRecord(db, record[1], record[2].id)
        /\ fetched' = Null
        /\ UNCHANGED othersIdle

SaveEmissionBlock ==
    \E data \in BlockData :
        /\ AuditOpen
        /\ db' = saveEmissionBlock(db, data)
        /\ fetched' = data.id
        /\ UNCHANGED othersIdle

UpdateEmissionBlock ==
    \E data \in BlockData :
        /\ AuditOpen
        /\ db' = updateEmissionBlock(db, data.id, data)
        /\ fetched' = Null
        /\ UNCHANGED othersIdle

SaveCbamSettings ==
    /\ db' = saveCbamSettings(db, [basis |-> "ACTUAL", certPriceScenario |-> "HIGH"])
    /\ fetched' = Null
    /\ UNCHANGED othersIdle

SaveAllocationSettings ==
    /\ db' = saveAllocationSettings(db, [method |-> "", treatResidueAsWaste |-> TRUE])
    /\ fetched' = Null
    /\ UNCHANGED othersIdle

NextAudit ==
    \/ SaveFuelEntry \/ DeleteFuelEntry
    \/ SaveElectricityEntry \/ DeleteElectricityEntry
    \/ SaveProcessEvent \/ DeleteProcessEvent
    \/ SaveProductionOutput
    \/ SaveRecord \/ DeleteRecord
    \/ SaveEmissionBlock \/ UpdateEmissionBlock
    \/ SaveCbamSettings \/ SaveAllocationSettings

SpecAudit == InitAudit /\ [][NextAudit]_vars

(***************************************************************************)
(* Properties of the audit trail                                           *)
(***************************************************************************)
DataTables == VersionedTables \cup KeyedTables \cup SettingsTables

\* the entity type that names the records of a table
EntityOfTable ==
    [fuel_entries |-> "fuel_entry", electricity_entries |-> "electricity_entry",
     process_events |-> "process_event", production_output |-> "production_output",
     installations |-> "installation", boundaries |-> "boundary",
     processes |-> "process", products |-> "product",
     emission_blocks |-> "emission_block", cbam_settings |-> "cbam_settings",
     allocation_settings |-> "allocation_settings"]

\* the ids of the records a table holds
KeysOf(rows) == {IF "stable_id" \in DOMAIN r THEN r.stable_id ELSE r.id : r \in rows}

\* every table changed between d and e has its change in the one audit row
\* added: the entity, the record, and CREATE, UPDATE or DELETE as the
\* record appeared, stayed or went
ChangeAudited(d, e) ==
    \A t \in DataTables :
        e[t] # d[t] =>
            /\ Audited(d, e)
            /\ LastAudit(e).entity_type = EntityOfTable[t]
            /\ LastAudit(e).entity_id \in KeysOf(d[t]) \cup KeysOf(e[t])
            /\ LastAudit(e).action =
                  IF KeysOf(e[t]) \subseteq KeysOf(d[t]) /\ KeysOf(e[t]) # KeysOf(d[t])
                  THEN "DELETE"
                  ELSE IF KeysOf(e[t]) # KeysOf(d[t]) THEN "CREATE" ELSE "UPDATE"

\* the audit rows of d are the first rows of e
AuditKept(d, e) ==
    /\ Len(e.audit_log) >= Len(d.audit_log)
    /\ SubSeq(e.audit_log, 1, Len(d.audit_log)) = d.audit_log

\* C28: every data change made through the data access layer (create,
\* update or delete of the installation, boundaries, processes, fuel,
\* electricity and process-event entries, emission blocks, products,
\* production output, CBAM settings and allocation settings) appends one
\* audit-log entry naming the entity and the action, and no data access
\* operation removes or alters an existing audit entry.
C28_EveryChangeAudited ==
    [][db # <<>> => ChangeAudited(db, db') /\ AuditKept(db, db')]_vars


(***************************************************************************)
(* AppContext: reducer, syncToDAL and the dispatch of AppProvider;         *)
(* WorkflowStatusBadge: handleStatusChange.  The dates the reducer stamps  *)
(* on the meta data are left out.                                          *)
(***************************************************************************)
STATUSES == <<"DRAFT", "IN_REVIEW", "APPROVED", "SUBMITTED">>

Action(type, payload) == [type |-> type, payload |-> payload]

\* the state buildStateFromDB gives for a database without an installation
NewInstallation ==
    [meta |-> [workflowStatus |-> "DRAFT", reviewerName |-> ""],
     activity |-> [fuels |-> <<>>, electricity |-> <<>>],
     processEvents |-> <<>>,
     emissionBlocks |-> <<>>,
     products |-> <<>>,
     allocationSettings |-> [method |-> "mass", treatResidueAsWaste |-> TRUE],
     cbamSettings |-> [basis |-> "ACTUAL", certPriceScenario |-> "MID"],
     isDirty |-> FALSE]

markDirty(s) == [s EXCEPT !.isDirty = TRUE]

\* list.filter(x => x.id !== id)
withoutId(list, id) == SelectSeq(list, LAMBDA x : x.id # id)

\* list.map(x => x.id === id ? { ...x, [field]: value } : x)
withField(list, id, field, value) ==
    [i \in 1..Len(list) |->
        IF list[i].id = id THEN (field :> value) @@ list[i] ELSE list[i]]

\* ['quantity', 'customNcv', ...].includes(field) ? (parseFloat(value) || 0) : value
fuelFieldValue(field, value) ==
    IF field \in {"quantity", "customNcv", "customEf", "customEfCo2", "customEfCh4", "customEfN2o"}
    THEN OrZero(value) ELSE value


\* reducer(state, action)
reducer(state, action) ==
    LET p == action.payload IN
    CASE action.type = "SET_WORKFLOW_STATUS" ->
            markDirty([state EXCEPT
                !.meta.workflowStatus = p.status,
                !.meta.reviewerName = IF p.status = "APPROVED" /\ p.reviewer # ""
                                      THEN p.reviewer ELSE @])
      [] action.type = "ADD_FUEL" ->
            markDirty([state EXCEPT !.activity.fuels = Append(@, p)])
      [] action.type = "UPDATE_FUEL" ->
            markDirty([state EXCEPT !.activity.fuels =
                withField(@, p.id, p.field, fuelFieldValue(p.field, p.value))])
      [] action.type = "DELETE_FUEL" ->
            markDirty([state EXCEPT !.activity.fuels = withoutId(@, p)])
      [] action.type = "ADD_ELEC" ->
            markDirty([state EXCEPT !.activity.electricity = Append(@, p)])
      [] action.type = "DELETE_ELEC" ->
            markDirty([state EXCEPT !.activity.electricity = withoutId(@, p)])
      [] action.type = "ADD_PROCESS_EVENT" ->
            markDirty([state EXCEPT !.processEvents = Append(@, p)])
      [] action.type = "DELETE_PROCESS_EVENT" ->
            markDirty([state EXCEPT !.processEvents = withoutId(@, p)])
      [] action.type = "ADD_EMISSION_BLOCK" ->
            markDirty([state EXCEPT !.emissionBlocks = Append(@, p)])
      [] action.type = "DELETE_EMISSION_BLOCK" ->
            markDirty([state EXCEPT !.emissionBlocks = withoutId(@, p)])
      [] action.type = "ADD_PRODUCT" ->
            markDirty([state EXCEPT !.products = Append(@, p)])
      [] action.type = "DELETE_PRODUCT" ->
            markDirty([state EXCEPT !.products = withoutId(@, p)])
      [] action.type = "UPDATE_ALLOC_SETTINGS" ->
            markDirty([state EXCEPT !.allocationSettings = (p.field :> p.value) @@ @])
      [] action.type = "UPDATE_CBAM" ->
            markDirty([state EXCEPT !.cbamSettings = (p.field :> p.value) @@ @])
      [] OTHER -> state

\* list.find(x => x.id === id)
hasId(list, id) == \E i \in 1..Len(list) : list[i].id = id
findId(list, id) ==
    list[CHOOSE i \in 1..Len(list) :
            list[i].id = id /\ \A j \in 1..(i - 1) : list[j].id # id]

\* syncToDAL(action, state) on the database d; state is the state before
\* the action
syncToDAL(action, state, d) ==
    LET p == action.payload IN
    CASE action.type = "ADD_FUEL" -> saveFuelEntry(d, p)
      [] action.type = "UPDATE_FUEL" ->
            IF hasId(state.activity.fuels, p.id)
            THEN saveFuelEntry(d, (p.field :> p.value) @@ findId(state.activity.fuels, p.id))
            ELSE d
      [] action.type = "DELETE_FUEL" -> deleteVersions(d, "fuel_entries", "fuel_entry", p)
      [] action.type = "ADD_ELEC" -> saveElectricityEntry(d, p)
      [] action.type = "DELETE_ELEC" ->
            deleteVersions(d, "electricity_entries", "electricity_entry", p)
      [] action.type = "ADD_PROCESS_EVENT" -> saveProcessEvent(d, p)
      [] action.type = "DELETE_PROCESS_EVENT" ->
            deleteVersions(d, "process_events", "process_event", p)
      [] action.type = "ADD_EMISSION_BLOCK" -> saveEmissionBlock(d, p)
      [] action.type = "DELETE_EMISSION_BLOCK" -> deleteRecord(d, "emission_blocks", p)
      [] action.type = "ADD_PRODUCT" -> saveRecord(d, "products", p)
      [] action.type = "DELETE_PRODUCT" -> deleteRecord(d, "products", p)
      [] action.type = "UPDATE_CBAM" ->
            saveCbamSettings(d, (p.field :> p.value) @@ state.cbamSettings)
      [] action.type = "UPDATE_ALLOC_SETTINGS" ->
            saveAllocationSettings(d, (p.field :> p.value) @@ state.allocationSettings)
      [] OTHER -> d

\* isLocked of WorkflowStatusBadge
isLocked(state) == state.meta.workflowStatus \in {"APPROVED", "SUBMITTED"}

(***************************************************************************)
(* Specification of the application: status changes through the badge and  *)
(* data actions dispatched by the views, in any order                      *)
(***************************************************************************)
\* the ids the views give to new entries are fresh
FreshIn(list, payload) == ~hasId(list, payload.id)

DataActions ==
    <<Action("ADD_FUEL", [id |-> "f1", period |-> "2024-01", quantity |-> Num(500)]),
      Action("UPDATE_FUEL", [id |-> "f1", field |-> "quantity", value |-> Num(520)]),
      Action("UPDATE_FUEL", [id |-> "f1", field |-> "period", value |-> "2024-02"]),
      Action("DELETE_FUEL", "f1"),
      Action("ADD_ELEC", [id |-> "e1", period |-> "2024-01", mwh |-> Num(1200)]),
      Action("DELETE_ELEC", "e1"),
      Action("ADD_PROCESS_EVENT", [id |-> "pe1", period |-> "2024-01", value |-> Num(400)]),
      Action("DELETE_PROCESS_EVENT", "pe1"),
      Action("ADD_EMISSION_BLOCK", Named("eb1", "Anode")),
      Action("DELETE_EMISSION_BLOCK", "eb1"),
      Action("ADD_PRODUCT", Named("pr1", "Ingot")),
      Action("DELETE_PRODUCT", "pr1"),
      Action("UPDATE_CBAM", [field |-> "certPriceScenario", value |-> "HIGH"]),
      Action("UPDATE_ALLOC_SETTINGS", [field |-> "treatResidueAsWaste", value |-> FALSE])>>

\* the list an ADD action appends to
ListOf(state, type) ==
    CASE type = "ADD_FUEL" -> state.activity.fuels
      [] type = "ADD_ELEC" -> state.activity.electricity
      [] type = "ADD_PROCESS_EVENT" -> state.processEvents
      [] type = "ADD_EMISSION_BLOCK" -> state.emissionBlocks
      [] type = "ADD_PRODUCT" -> state.products
      [] OTHER -> <<>>

appIdle == <<pc, evalVars, emisVars, pcfVars, cbamVars, compareVars, fetched>>

InitApp ==
    /\ pc = "ready"
    /\ appState = NewInstallation
    /\ db = EmptyDatabase
    /\ fetched = <<>>
    /\ EvalIdle /\ EmisIdle /\ PcfIdle /\ CbamIdle /\ CompareIdle

\* dispatch(action) of AppProvider: rawDispatch, then syncToDAL with the
\* state of the render
Dispatch ==
    \E n \in 1..Len(DataActions) :
        LET action == DataActions[n] IN
        /\ AuditOpen
        /\ FreshIn(ListOf(appState, action.type), action.payload)
        /\ appState' = reducer(appState, action)
        /\ db' = syncToDAL(action, appState, db)
        /\ UNCHANGED appIdle

\* handleStatusChange(newStatus): nothing for the current status or when
\* the confirmation of a revert to DRAFT is declined
HandleStatusChange ==
    \E i \in 1..Len(STATUSES), confirmed \in BOOLEAN :
        LET newStatus == STATUSES[i]
            action == Action("SET_WORKFLOW_STATUS", [status |-> newStatus, reviewer |-> ""])
        IN /\ newStatus # appState.meta.workflowStatus
           /\ (isLocked(appState) /\ newStatus = "DRAFT") => confirmed
           /\ appState' = reducer(appState, action)
           /\ db' = syncToDAL(action, appState, db)
           /\ UNCHANGED appIdle

NextApp == Dispatch \/ HandleStatusChange

SpecApp == InitApp /\ [][NextApp]_vars

(***************************************************************************)
(* Properties of the workflow                                              *)
(***************************************************************************)
\* the stages in the order Draft, Submitted, Approved, Locked
NextStage ==
    {<<"DRAFT", "SUBMITTED">>, <<"SUBMITTED", "APPROVED">>, <<"APPROVED", "LOCKED">>}

StatusOf(state) == state.meta.workflowStatus

\* C27: over any sequence of status-change actions, a change of workflow
\* status is accepted only to the next stage of the order Draft,
\* Submitted, Approved, Locked, so no stage is skipped and Approved is never
\* reached without passing through Submitted.
C27_StatusAdvancesOneStage ==
    [][(appState # <<>> /\ StatusOf(appState') # StatusOf(appState))
          => <<StatusOf(appState), StatusOf(appState')>> \in NextStage]_vars

\* the data of the application state: everything but the meta data and the
\* dirty flag
DataOf(state) ==
    [k \in DOMAIN state \ {"meta", "isDirty"} |-> state[k]]

\* C30: while the workflow status is APPROVED or SUBMITTED no dispatched
\* add, update or delete action on fuels, electricity, process events,
\* emission blocks, products or settings changes the application state or
\* the stored records; the data changes again only after the status has been
\* reverted to DRAFT.
C30_LockedDataUnchanged ==
    [][(appState # <<>> /\ StatusOf(appState) \in {"APPROVED", "SUBMITTED"}
            /\ StatusOf(appState') = StatusOf(appState))
          => (DataOf(appState') = DataOf(appState) /\ db' = db)]_vars

====
